---- MODULE Spec2Model ----
(***************************************************************************)
(* The trait-inference engine of the character-profiling application:      *)
(* the prior and likelihood tables, the posterior computation, the         *)
(* suggestion / autocomplete layer and the rapport heuristics.             *)
(*                                                                         *)
(* Numbers.  The engine computes with IEEE doubles; the model computes     *)
(* with exact rationals.  A prior is an integer number of hundredths, a    *)
(* likelihood multiplier an integer number of tenths, an evidence weight   *)
(* an integer number of halves (0 = 0.0, 1 = 0.5, 2 = 1.0).  A score       *)
(* computed from n evidence items is an integer over 100 * 10^n.  A        *)
(* posterior, and every other number stored in a profile, is a record      *)
(* [num, den] with den > 0.                                                *)
(***************************************************************************)
EXTENDS Integers, Sequences, FiniteSets, TLC

(***************************************************************************)
(* The shipped knowledge base (part_002, PRIORS and                        *)
(* LIKELIHOOD_MULTIPLIERS), in declaration order.                          *)
(***************************************************************************)
PRIORS ==
  <<
    [trait |-> "Highly Introverted", category |-> "introversionExtroversion", probability |-> 10],
    [trait |-> "Introverted", category |-> "introversionExtroversion", probability |-> 30],
    [trait |-> "Ambivert", category |-> "introversionExtroversion", probability |-> 40],
    [trait |-> "Extroverted", category |-> "introversionExtroversion", probability |-> 15],
    [trait |-> "Highly Extroverted", category |-> "introversionExtroversion", probability |-> 5],
    [trait |-> "Secure", category |-> "attachmentStyle", probability |-> 55],
    [trait |-> "Anxious", category |-> "attachmentStyle", probability |-> 20],
    [trait |-> "Avoidant", category |-> "attachmentStyle", probability |-> 20],
    [trait |-> "Fearful-Avoidant", category |-> "attachmentStyle", probability |-> 5],
    [trait |-> "Highly Skeptical", category |-> "trustLevel", probability |-> 5],
    [trait |-> "Skeptical", category |-> "trustLevel", probability |-> 25],
    [trait |-> "Neutral", category |-> "trustLevel", probability |-> 40],
    [trait |-> "Trusting", category |-> "trustLevel", probability |-> 25],
    [trait |-> "Highly Trusting", category |-> "trustLevel", probability |-> 5],
    [trait |-> "Fear of abandonment", category |-> "vulnerabilities", probability |-> 15],
    [trait |-> "Need for validation", category |-> "vulnerabilities", probability |-> 30],
    [trait |-> "Fear of rejection", category |-> "vulnerabilities", probability |-> 25],
    [trait |-> "Overthinking", category |-> "vulnerabilities", probability |-> 35],
    [trait |-> "Imposter syndrome", category |-> "vulnerabilities", probability |-> 20],
    [trait |-> "Perfectionism", category |-> "vulnerabilities", probability |-> 15],
    [trait |-> "Need for control", category |-> "vulnerabilities", probability |-> 10],
    [trait |-> "Fear of failure", category |-> "vulnerabilities", probability |-> 30],
    [trait |-> "Fear of intimacy", category |-> "vulnerabilities", probability |-> 15],
    [trait |-> "Fear of conflict", category |-> "vulnerabilities", probability |-> 25],
    [trait |-> "Need for reassurance", category |-> "vulnerabilities", probability |-> 20],
    [trait |-> "Fear of being irrelevant", category |-> "vulnerabilities", probability |-> 15],
    [trait |-> "Leader", category |-> "socialRole", probability |-> 10],
    [trait |-> "Follower", category |-> "socialRole", probability |-> 50],
    [trait |-> "Connector", category |-> "socialRole", probability |-> 15],
    [trait |-> "Outlier", category |-> "socialRole", probability |-> 15],
    [trait |-> "Gatekeeper", category |-> "socialRole", probability |-> 5],
    [trait |-> "Mediator", category |-> "socialRole", probability |-> 5],
    [trait |-> "Direct", category |-> "communicationStyle", probability |-> 20],
    [trait |-> "Indirect", category |-> "communicationStyle", probability |-> 25],
    [trait |-> "Reserved", category |-> "communicationStyle", probability |-> 15],
    [trait |-> "Analytical", category |-> "communicationStyle", probability |-> 10],
    [trait |-> "Emotional", category |-> "communicationStyle", probability |-> 15],
    [trait |-> "Functional", category |-> "communicationStyle", probability |-> 5],
    [trait |-> "Personal", category |-> "communicationStyle", probability |-> 5],
    [trait |-> "Intuitive", category |-> "communicationStyle", probability |-> 5],
    [trait |-> "Verbal", category |-> "communicationChannel", probability |-> 40],
    [trait |-> "Written", category |-> "communicationChannel", probability |-> 20],
    [trait |-> "Non-verbal", category |-> "communicationChannel", probability |-> 15],
    [trait |-> "Digital", category |-> "communicationChannel", probability |-> 25],
    [trait |-> "Belonging", category |-> "desires", probability |-> 30],
    [trait |-> "Achievement", category |-> "desires", probability |-> 25],
    [trait |-> "Recognition", category |-> "desires", probability |-> 15],
    [trait |-> "Power", category |-> "desires", probability |-> 10],
    [trait |-> "Security", category |-> "desires", probability |-> 20],
    [trait |-> "Freedom", category |-> "desires", probability |-> 15],
    [trait |-> "Understanding", category |-> "desires", probability |-> 10],
    [trait |-> "Being understood", category |-> "desires", probability |-> 25],
    [trait |-> "Creativity", category |-> "desires", probability |-> 10],
    [trait |-> "Harmony", category |-> "desires", probability |-> 15],
    [trait |-> "Growth", category |-> "desires", probability |-> 15],
    [trait |-> "Helping others", category |-> "desires", probability |-> 10],
    [trait |-> "Rejection", category |-> "fears", probability |-> 30],
    [trait |-> "Failure", category |-> "fears", probability |-> 25],
    [trait |-> "Abandonment", category |-> "fears", probability |-> 15],
    [trait |-> "Inadequacy", category |-> "fears", probability |-> 20],
    [trait |-> "Criticism", category |-> "fears", probability |-> 15],
    [trait |-> "Being controlled", category |-> "fears", probability |-> 10],
    [trait |-> "Being irrelevant", category |-> "fears", probability |-> 15],
    [trait |-> "Uncertainty", category |-> "fears", probability |-> 20],
    [trait |-> "Vulnerability", category |-> "fears", probability |-> 15],
    [trait |-> "Conflict", category |-> "fears", probability |-> 25],
    [trait |-> "Intimacy", category |-> "fears", probability |-> 10],
    [trait |-> "Being misunderstood", category |-> "fears", probability |-> 20],
    [trait |-> "Shared interests", category |-> "trustTriggers", probability |-> 25],
    [trait |-> "Vulnerability disclosure", category |-> "trustTriggers", probability |-> 15],
    [trait |-> "Consistent behavior", category |-> "trustTriggers", probability |-> 20],
    [trait |-> "Shared values", category |-> "trustTriggers", probability |-> 15],
    [trait |-> "Active listening", category |-> "trustTriggers", probability |-> 10],
    [trait |-> "Shared experiences", category |-> "trustTriggers", probability |-> 20],
    [trait |-> "Relatability", category |-> "trustTriggers", probability |-> 25],
    [trait |-> "Shared emotional language", category |-> "trustTriggers", probability |-> 15],
    [trait |-> "Shared humor", category |-> "trustTriggers", probability |-> 15],
    [trait |-> "Perceived competence", category |-> "trustTriggers", probability |-> 10],
    [trait |-> "Shared adversity", category |-> "trustTriggers", probability |-> 10],
    [trait |-> "Perceived authenticity", category |-> "trustTriggers", probability |-> 20],
    [trait |-> "Highly emotional", category |-> "emotionVsLogic", probability |-> 10],
    [trait |-> "Moderately emotional", category |-> "emotionVsLogic", probability |-> 25],
    [trait |-> "Balanced", category |-> "emotionVsLogic", probability |-> 30],
    [trait |-> "Moderately logical", category |-> "emotionVsLogic", probability |-> 25],
    [trait |-> "Highly logical", category |-> "emotionVsLogic", probability |-> 10],
    [trait |-> "Very slow", category |-> "decisionPacing", probability |-> 10],
    [trait |-> "Slow", category |-> "decisionPacing", probability |-> 20],
    [trait |-> "Moderate", category |-> "decisionPacing", probability |-> 40],
    [trait |-> "Fast", category |-> "decisionPacing", probability |-> 20],
    [trait |-> "Very fast", category |-> "decisionPacing", probability |-> 10],
    [trait |-> "Professional role", category |-> "identityAnchors", probability |-> 25],
    [trait |-> "Relationships", category |-> "identityAnchors", probability |-> 20],
    [trait |-> "Beliefs/values", category |-> "identityAnchors", probability |-> 15],
    [trait |-> "Skills/abilities", category |-> "identityAnchors", probability |-> 15],
    [trait |-> "Group membership", category |-> "identityAnchors", probability |-> 10],
    [trait |-> "Personal history", category |-> "identityAnchors", probability |-> 10],
    [trait |-> "Physical attributes", category |-> "identityAnchors", probability |-> 5]
  >>

LIKELIHOOD_MULTIPLIERS ==
  <<
    [evidence |-> "Highly Introverted", trait |-> "Avoidant", multiplier |-> 18],
    [evidence |-> "Highly Introverted", trait |-> "Fearful-Avoidant", multiplier |-> 15],
    [evidence |-> "Highly Introverted", trait |-> "Skeptical", multiplier |-> 13],
    [evidence |-> "Highly Introverted", trait |-> "Highly Skeptical", multiplier |-> 14],
    [evidence |-> "Highly Introverted", trait |-> "Fear of rejection", multiplier |-> 15],
    [evidence |-> "Highly Introverted", trait |-> "Overthinking", multiplier |-> 17],
    [evidence |-> "Highly Introverted", trait |-> "Outlier", multiplier |-> 20],
    [evidence |-> "Highly Introverted", trait |-> "Reserved", multiplier |-> 22],
    [evidence |-> "Highly Introverted", trait |-> "Analytical", multiplier |-> 16],
    [evidence |-> "Highly Introverted", trait |-> "Written", multiplier |-> 18],
    [evidence |-> "Highly Introverted", trait |-> "Being misunderstood", multiplier |-> 15],
    [evidence |-> "Highly Introverted", trait |-> "Slow", multiplier |-> 16],
    [evidence |-> "Highly Introverted", trait |-> "Very slow", multiplier |-> 14],
    [evidence |-> "Introverted", trait |-> "Avoidant", multiplier |-> 14],
    [evidence |-> "Introverted", trait |-> "Skeptical", multiplier |-> 12],
    [evidence |-> "Introverted", trait |-> "Overthinking", multiplier |-> 15],
    [evidence |-> "Introverted", trait |-> "Outlier", multiplier |-> 15],
    [evidence |-> "Introverted", trait |-> "Reserved", multiplier |-> 18],
    [evidence |-> "Introverted", trait |-> "Analytical", multiplier |-> 14],
    [evidence |-> "Introverted", trait |-> "Written", multiplier |-> 15],
    [evidence |-> "Introverted", trait |-> "Slow", multiplier |-> 13],
    [evidence |-> "Extroverted", trait |-> "Secure", multiplier |-> 13],
    [evidence |-> "Extroverted", trait |-> "Trusting", multiplier |-> 14],
    [evidence |-> "Extroverted", trait |-> "Connector", multiplier |-> 18],
    [evidence |-> "Extroverted", trait |-> "Leader", multiplier |-> 15],
    [evidence |-> "Extroverted", trait |-> "Direct", multiplier |-> 16],
    [evidence |-> "Extroverted", trait |-> "Emotional", multiplier |-> 14],
    [evidence |-> "Extroverted", trait |-> "Verbal", multiplier |-> 17],
    [evidence |-> "Extroverted", trait |-> "Fast", multiplier |-> 15],
    [evidence |-> "Highly Extroverted", trait |-> "Secure", multiplier |-> 15],
    [evidence |-> "Highly Extroverted", trait |-> "Trusting", multiplier |-> 16],
    [evidence |-> "Highly Extroverted", trait |-> "Highly Trusting", multiplier |-> 18],
    [evidence |-> "Highly Extroverted", trait |-> "Connector", multiplier |-> 20],
    [evidence |-> "Highly Extroverted", trait |-> "Leader", multiplier |-> 19],
    [evidence |-> "Highly Extroverted", trait |-> "Direct", multiplier |-> 18],
    [evidence |-> "Highly Extroverted", trait |-> "Emotional", multiplier |-> 17],
    [evidence |-> "Highly Extroverted", trait |-> "Verbal", multiplier |-> 20],
    [evidence |-> "Highly Extroverted", trait |-> "Recognition", multiplier |-> 17],
    [evidence |-> "Highly Extroverted", trait |-> "Fast", multiplier |-> 16],
    [evidence |-> "Highly Extroverted", trait |-> "Very fast", multiplier |-> 18],
    [evidence |-> "Anxious", trait |-> "Fear of abandonment", multiplier |-> 25],
    [evidence |-> "Anxious", trait |-> "Need for reassurance", multiplier |-> 22],
    [evidence |-> "Anxious", trait |-> "Fear of rejection", multiplier |-> 20],
    [evidence |-> "Anxious", trait |-> "Overthinking", multiplier |-> 18],
    [evidence |-> "Anxious", trait |-> "Emotional", multiplier |-> 17],
    [evidence |-> "Anxious", trait |-> "Belonging", multiplier |-> 19],
    [evidence |-> "Anxious", trait |-> "Being understood", multiplier |-> 18],
    [evidence |-> "Anxious", trait |-> "Vulnerability disclosure", multiplier |-> 16],
    [evidence |-> "Anxious", trait |-> "Highly emotional", multiplier |-> 17],
    [evidence |-> "Anxious", trait |-> "Moderately emotional", multiplier |-> 15],
    [evidence |-> "Avoidant", trait |-> "Fear of intimacy", multiplier |-> 23],
    [evidence |-> "Avoidant", trait |-> "Reserved", multiplier |-> 19],
    [evidence |-> "Avoidant", trait |-> "Freedom", multiplier |-> 18],
    [evidence |-> "Avoidant", trait |-> "Being controlled", multiplier |-> 17],
    [evidence |-> "Avoidant", trait |-> "Outlier", multiplier |-> 16],
    [evidence |-> "Avoidant", trait |-> "Moderately logical", multiplier |-> 14],
    [evidence |-> "Avoidant", trait |-> "Highly logical", multiplier |-> 15],
    [evidence |-> "Fearful-Avoidant", trait |-> "Fear of abandonment", multiplier |-> 20],
    [evidence |-> "Fearful-Avoidant", trait |-> "Fear of intimacy", multiplier |-> 20],
    [evidence |-> "Fearful-Avoidant", trait |-> "Overthinking", multiplier |-> 21],
    [evidence |-> "Fearful-Avoidant", trait |-> "Highly Skeptical", multiplier |-> 19],
    [evidence |-> "Fearful-Avoidant", trait |-> "Vulnerability", multiplier |-> 18],
    [evidence |-> "Secure", trait |-> "Trusting", multiplier |-> 18],
    [evidence |-> "Secure", trait |-> "Consistent behavior", multiplier |-> 16],
    [evidence |-> "Secure", trait |-> "Balanced", multiplier |-> 17],
    [evidence |-> "Secure", trait |-> "Moderate", multiplier |-> 15],
    [evidence |-> "Highly Skeptical", trait |-> "Fear of betrayal", multiplier |-> 22],
    [evidence |-> "Highly Skeptical", trait |-> "Reserved", multiplier |-> 18],
    [evidence |-> "Highly Skeptical", trait |-> "Perceived authenticity", multiplier |-> 5],
    [evidence |-> "Trusting", trait |-> "Vulnerability disclosure", multiplier |-> 17],
    [evidence |-> "Trusting", trait |-> "Shared experiences", multiplier |-> 16],
    [evidence |-> "Leader", trait |-> "Power", multiplier |-> 20],
    [evidence |-> "Leader", trait |-> "Achievement", multiplier |-> 18],
    [evidence |-> "Leader", trait |-> "Direct", multiplier |-> 17],
    [evidence |-> "Leader", trait |-> "Fast", multiplier |-> 16],
    [evidence |-> "Follower", trait |-> "Security", multiplier |-> 16],
    [evidence |-> "Follower", trait |-> "Belonging", multiplier |-> 15],
    [evidence |-> "Connector", trait |-> "Relatability", multiplier |-> 19],
    [evidence |-> "Connector", trait |-> "Shared interests", multiplier |-> 17],
    [evidence |-> "Connector", trait |-> "Personal", multiplier |-> 18],
    [evidence |-> "Outlier", trait |-> "Being misunderstood", multiplier |-> 18],
    [evidence |-> "Outlier", trait |-> "Freedom", multiplier |-> 17],
    [evidence |-> "Outlier", trait |-> "Being irrelevant", multiplier |-> 16],
    [evidence |-> "Direct", trait |-> "Conflict", multiplier |-> 14],
    [evidence |-> "Direct", trait |-> "Trusting", multiplier |-> 13],
    [evidence |-> "Indirect", trait |-> "Conflict", multiplier |-> 7],
    [evidence |-> "Indirect", trait |-> "Fear of rejection", multiplier |-> 15],
    [evidence |-> "Reserved", trait |-> "Being misunderstood", multiplier |-> 16],
    [evidence |-> "Reserved", trait |-> "Vulnerability", multiplier |-> 15],
    [evidence |-> "Analytical", trait |-> "Highly logical", multiplier |-> 20],
    [evidence |-> "Analytical", trait |-> "Moderately logical", multiplier |-> 17],
    [evidence |-> "Emotional", trait |-> "Highly emotional", multiplier |-> 20],
    [evidence |-> "Emotional", trait |-> "Moderately emotional", multiplier |-> 17]
  >>
(***************************************************************************)
(* The knowledge bases the engine can be loaded with.  The shipped tables  *)
(* are the module constants PRIORS and LIKELIHOOD_MULTIPLIERS.  Every      *)
(* shipped prior and multiplier is positive, so with them no category's    *)
(* normalization factor is 0; the fixture tables are alternate tables, as  *)
(* the design notes foresee for tests, that hold that case: a category of  *)
(* zero priors, and evidence whose multiplier is 0 for every trait of a    *)
(* category.                                                               *)
(***************************************************************************)
FixturePriors ==
  <<[trait |-> "z1",   category |-> "zeroCat", probability |-> 0],
    [trait |-> "z2",   category |-> "zeroCat", probability |-> 0],
    [trait |-> "solo", category |-> "soloCat", probability |-> 30],
    [trait |-> "a",    category |-> "tieCat",  probability |-> 25],
    [trait |-> "b",    category |-> "tieCat",  probability |-> 25],
    [trait |-> "c",    category |-> "tieCat",  probability |-> 10]>>

FixtureLikelihoods ==
  <<[evidence |-> "quad", trait |-> "b",    multiplier |-> 40],
    [evidence |-> "kill", trait |-> "solo", multiplier |-> 0],
    [evidence |-> "kill", trait |-> "a",    multiplier |-> 0],
    [evidence |-> "kill", trait |-> "b",    multiplier |-> 0],
    [evidence |-> "kill", trait |-> "c",    multiplier |-> 0]>>

\* Tables in which a (trait, category) pair and an (evidence, trait) pair
\* have two rows each.
DuplicatePriors ==
  <<[trait |-> "a", category |-> "dupCat",   probability |-> 20],
    [trait |-> "a", category |-> "otherCat", probability |-> 70],
    [trait |-> "a", category |-> "dupCat",   probability |-> 60],
    [trait |-> "b", category |-> "dupCat",   probability |-> 20]>>

DuplicateLikelihoods ==
  <<[evidence |-> "e1", trait |-> "a", multiplier |-> 20],
    [evidence |-> "e1", trait |-> "b", multiplier |-> 15],
    [evidence |-> "e1", trait |-> "a", multiplier |-> 5],
    [evidence |-> "e2", trait |-> "a", multiplier |-> 0]>>

KnowledgeBases ==
  [shipped    |-> [priors |-> PRIORS, likelihoods |-> LIKELIHOOD_MULTIPLIERS],
   fixture    |-> [priors |-> FixturePriors, likelihoods |-> FixtureLikelihoods],
   duplicates |-> [priors |-> DuplicatePriors, likelihoods |-> DuplicateLikelihoods]]

(***************************************************************************)
(* State.                                                                  *)
(*   kb          the knowledge base the module was loaded with; priors     *)
(*               and likelihoods are its two arrays                        *)
(*   heap        the profile objects that exist; a reference is an index   *)
(*               of this sequence                                          *)
(*   evidence    the evidence list the caller holds                        *)
(*   inference   the BayesianInference the caller holds, or Null           *)
(*   ret         the last call made and the value it returned              *)
(*   calls       the number of calls made so far                           *)
(*   state       the state the provider's reducer holds                    *)
(*   localStorage  the items of the browser's local storage                *)
(***************************************************************************)
VARIABLES kb, heap, evidence, inference, ret, calls, state, localStorage

vars == <<kb, heap, evidence, inference, ret, calls, state, localStorage>>

\* null / undefined
Null == [null |-> TRUE]

(***************************************************************************)
(* Bounds of the model.                                                    *)
(***************************************************************************)
MaxCalls == 2
MaxObjects == 3
MaxEvidence == 2
MaxCount == 5

(***************************************************************************)
(* Rationals.                                                              *)
(***************************************************************************)
Rat(n, d) == [num |-> n, den |-> d]

Zero == Rat(0, 1)

\* a < b.  Two numbers over the same denominator compare by numerator.
RatLess(a, b) ==
  IF a.den = b.den THEN a.num < b.num ELSE a.num * b.den < b.num * a.den

RatEq(a, b) ==
  IF a.den = b.den THEN a.num = b.num ELSE a.num * b.den = b.num * a.den

RECURSIVE Pow10(_)
Pow10(n) == IF n = 0 THEN 1 ELSE 10 * Pow10(n - 1)

\* The denominator of a score computed from the evidence list ev.
ScoreScale(ev) == 100 * Pow10(Len(ev))

Min(S) == CHOOSE x \in S : \A y \in S : x <= y

(***************************************************************************)
(* Map<string, V>: the entries in insertion order.  set() on a key that    *)
(* is present replaces its value and keeps its place.                      *)
(***************************************************************************)
MapHas(m, k) == \E i \in DOMAIN m : m[i].key = k

MapGet(m, k) == m[Min({i \in DOMAIN m : m[i].key = k})].value

\* The map after set(key, value) for each entry of the sequence in turn: a
\* key stands where it was first set and holds the value it was last set to.
MapOf(entries) ==
  LET first == {i \in DOMAIN entries :
                  \A j \in 1..(i - 1) : entries[j].key # entries[i].key}
      nth(n) == CHOOSE i \in first : Cardinality({j \in first : j <= i}) = n
      last(k) == CHOOSE i \in DOMAIN entries :
                   /\ entries[i].key = k
                   /\ \A j \in (i + 1)..Len(entries) : entries[j].key # k
  IN  [n \in 1..Cardinality(first) |->
         [key |-> entries[nth(n)].key, value |-> entries[last(entries[nth(n)].key)].value]]
       @@ << >>

MapKeys(m) == [i \in DOMAIN m |-> m[i].key]

(***************************************************************************)
(* Knowledge-base lookups.  Array.prototype.find returns the first         *)
(* matching row in array order.                                            *)
(***************************************************************************)
\* A variant of FindPrior that returns the last matching row.
FindPriorLast(rows, trait, category) ==
  LET hits == {i \in DOMAIN rows :
                 rows[i].trait = trait /\ rows[i].category = category}
  IN  IF hits = {} THEN 1
      ELSE rows[CHOOSE i \in hits : \A j \in hits : j <= i].probability

FindPrior(rows, trait, category) ==
  LET hits == {i \in DOMAIN rows :
                 rows[i].trait = trait /\ rows[i].category = category}
  IN  IF hits = {} THEN 1 ELSE rows[Min(hits)].probability

FilterCategory(rows, category) ==
  SelectSeq(rows, LAMBDA p : p.category = category)

\* A variant of FindMultiplier that matches a row on its evidence alone.
FindMultiplierByEvidence(rows, ev, trait) ==
  LET hits == {i \in DOMAIN rows : rows[i].evidence = ev}
  IN  IF hits = {} THEN 10 ELSE rows[Min(hits)].multiplier

\* A variant of FindMultiplier whose fallback is 0.
FindMultiplierOrZero(rows, ev, trait) ==
  LET hits == {i \in DOMAIN rows :
                 rows[i].evidence = ev /\ rows[i].trait = trait}
  IN  IF hits = {} THEN 0 ELSE rows[Min(hits)].multiplier

FindMultiplier(rows, ev, trait) ==
  LET hits == {i \in DOMAIN rows :
                 rows[i].evidence = ev /\ rows[i].trait = trait}
  IN  IF hits = {} THEN 10 ELSE rows[Min(hits)].multiplier

\* Every string that can be passed as an evidence trait: the evidence and
\* the traits of the tables, and the names the inputs below use.
InputNames ==
  {"", "Highly Introverted", "Highly Extroverted", "Anxious", "Avoidant",
   "Highly Skeptical", "Neutral", "Leader", "Direct", "Emotional",
   "nonexistent-evidence", "nonexistent-trait", "quad", "kill", "none"}

EvidenceNames(t) ==
  InputNames
    \cup {t.likelihoods[i].evidence : i \in DOMAIN t.likelihoods}
    \cup {t.priors[i].trait : i \in DOMAIN t.priors}

TraitNames(t) ==
  {t.priors[i].trait : i \in DOMAIN t.priors}
    \cup {t.likelihoods[i].trait : i \in DOMAIN t.likelihoods}
    \cup {"nonexistent-trait"}

CategoryNames(t) ==
  {t.priors[i].category : i \in DOMAIN t.priors}
    \cup {"introversionExtroversion", "attachmentStyle", "trustLevel",
          "vulnerabilities", "socialRole", "communicationStyle", "emotionVsLogic",
          "decisionPacing", "desires", "fears", "trustTriggers", "identityAnchors",
          "unknownCategory"}

\* The tables t with the results of the two scans tabulated.
Tabulate(t) ==
  [priors      |-> t.priors,
   likelihoods |-> t.likelihoods,
   byCategory  |-> [c \in CategoryNames(t) |-> FilterCategory(t.priors, c)] @@ << >>,
   multiplier  |->
     [e \in EvidenceNames(t) |->
        [x \in TraitNames(t) |-> FindMultiplier(t.likelihoods, e, x)] @@ << >>] @@ << >>]

Loaded == [k \in DOMAIN KnowledgeBases |-> Tabulate(KnowledgeBases[k])] @@ << >>

priors == Loaded[kb].priors

likelihoods == Loaded[kb].likelihoods

getPrior(trait, category) == FindPrior(priors, trait, category)

getTraitsForCategory(category) == Loaded[kb].byCategory[category]

getLikelihoodMultiplier(ev, trait) == Loaded[kb].multiplier[ev][trait]

(***************************************************************************)
(* Math.pow(multiplier, weight), multiplier in tenths, weight in halves,   *)
(* result in tenths.  pow(m, 0) = 1 for every m, pow(m, 1) = m, and        *)
(* pow(m, 0.5) is the square root, which the model computes only where it  *)
(* is a whole number of tenths.                                            *)
(***************************************************************************)
HasExactRoot(m) == \E r \in 0..(m + 10) : r * r = 10 * m

ExactRoot(m) == CHOOSE r \in 0..(m + 10) : r * r = 10 * m

\* A variant of Pow that applies the whole multiplier whatever the weight.
WholeMultiplier(m, w) == m

Pow(m, w) ==
  CASE w = 0 -> 10
    [] w = 1 -> ExactRoot(m)
    [] w = 2 -> m

(***************************************************************************)
(* The inner loop shared by calculateNormalizationFactor and               *)
(* calculatePosteriors:                                                    *)
(*     for (const ev of evidence)                                          *)
(*       posterior *= Math.pow(getLikelihoodMultiplier(ev.trait, t), w)    *)
(***************************************************************************)
\* A variant of ApplyEvidence that applies no evidence item.
NoEvidenceApplied(posterior, ev, trait) == posterior

RECURSIVE ApplyEvidence(_, _, _)
ApplyEvidence(posterior, ev, trait) ==
  IF ev = << >> THEN posterior
  ELSE ApplyEvidence(
         posterior * Pow(getLikelihoodMultiplier(Head(ev).trait, trait),
                         Head(ev).probability),
         Tail(ev), trait)

RECURSIVE SumScores(_, _)
SumScores(traits, ev) ==
  IF traits = << >> THEN 0
  ELSE ApplyEvidence(Head(traits).probability, ev, Head(traits).trait)
         + SumScores(Tail(traits), ev)

\* A variant of calculateNormalizationFactor that adds up the scores of every
\* row of the table, whatever its category.
NormalizeAcrossCategories(category, ev) == SumScores(priors, ev)

calculateNormalizationFactor(category, ev) ==
  SumScores(getTraitsForCategory(category), ev)

\* Variants of PosteriorOf: one that divides whatever the factor is, one that
\* never divides.
DivideAlways(row, ev, normalizationFactor) ==
  Rat(ApplyEvidence(row.probability, ev, row.trait), normalizationFactor)

DivideNever(row, ev, normalizationFactor) ==
  Rat(ApplyEvidence(row.probability, ev, row.trait), ScoreScale(ev))

\* One iteration of calculatePosteriors' loop over the traits.
PosteriorOf(row, ev, normalizationFactor) ==
  LET posterior == ApplyEvidence(row.probability, ev, row.trait)
  IN  IF normalizationFactor > 0
      THEN Rat(posterior, normalizationFactor)
      ELSE Rat(posterior, ScoreScale(ev))

\* for (const { trait, probability } of traits) posteriors[trait] = ...
calculatePosteriors(category, ev) ==
  LET traits == getTraitsForCategory(category)
      normalizationFactor == calculateNormalizationFactor(category, ev)
  IN  MapOf([i \in DOMAIN traits |->
               [key   |-> traits[i].trait,
                value |-> PosteriorOf(traits[i], ev, normalizationFactor)]] @@ << >>)

\* Array.from(new Set(PRIORS.map(p => p.category))): the categories in the
\* order of their first rows.
CategoriesOf(rows) ==
  LET first == {i \in DOMAIN rows :
                  \A j \in 1..(i - 1) : rows[j].category # rows[i].category}
  IN  [n \in 1..Cardinality(first) |->
         rows[CHOOSE i \in first : Cardinality({j \in first : j <= i}) = n].category]

\* for (const category of categories)
\*   posteriors.set(category, calculatePosteriors(category, evidence))
performInference(ev) ==
  LET categories == CategoriesOf(priors)
  IN  [evidence   |-> ev,
       posteriors |-> MapOf([i \in DOMAIN categories |->
                               [key   |-> categories[i],
                                value |-> calculatePosteriors(categories[i], ev)]]
                            @@ << >>)]


(***************************************************************************)
(* Array.prototype.sort((a, b) => b.k - a.k): descending by the number k,  *)
(* stable (elements with equal k keep their order).                        *)
(***************************************************************************)
SortDesc(s) ==
  LET before(i) == Cardinality({j \in DOMAIN s : RatLess(s[i].k, s[j].k)})
                     + Cardinality({j \in 1..(i - 1) : RatEq(s[j].k, s[i].k)})
  IN  [n \in DOMAIN s |-> s[CHOOSE i \in DOMAIN s : before(i) = n - 1]] @@ << >>

\* Array.prototype.slice(0, n), n >= 0
Slice(s, n) == SubSeq(s, 1, IF n < Len(s) THEN n ELSE Len(s))

(***************************************************************************)
(* Results.                                                                *)
(***************************************************************************)
\* A variant of the scan that takes a later trait when it ties the highest.
RECURSIVE ScanHighestOrEqual(_, _, _)
ScanHighestOrEqual(entries, highestTrait, highestProbability) ==
  IF entries = << >>
  THEN [trait |-> highestTrait, probability |-> highestProbability]
  ELSE IF ~RatLess(Head(entries).value, highestProbability)
       THEN ScanHighestOrEqual(Tail(entries), Head(entries).key, Head(entries).value)
       ELSE ScanHighestOrEqual(Tail(entries), highestTrait, highestProbability)

RECURSIVE ScanHighest(_, _, _)
ScanHighest(entries, highestTrait, highestProbability) ==
  IF entries = << >>
  THEN [trait |-> highestTrait, probability |-> highestProbability]
  ELSE IF RatLess(highestProbability, Head(entries).value)
       THEN ScanHighest(Tail(entries), Head(entries).key, Head(entries).value)
       ELSE ScanHighest(Tail(entries), highestTrait, highestProbability)

findHighestProbabilityTrait(posteriors) == ScanHighest(posteriors, "", Zero)

\* A variant of Clamp01 that leaves the number as it is.
Unclamped(x) == x

\* Math.min(1.0, Math.max(0.0, gap * 3))
Clamp01(x) ==
  IF RatLess(x, Zero) THEN Zero
  ELSE IF RatLess(Rat(1, 1), x) THEN Rat(1, 1) ELSE x

calculateConfidence(posteriors) ==
  LET probabilities ==
        SortDesc([i \in DOMAIN posteriors |-> [k |-> posteriors[i].value]])
  IN  IF Len(probabilities) <= 1 THEN Rat(1, 1)
      ELSE LET p0 == probabilities[1].k
               p1 == probabilities[2].k
               gap3 == IF p0.den = p1.den
                       THEN Rat(3 * (p0.num - p1.num), p0.den)
                       ELSE Rat(3 * (p0.num * p1.den - p1.num * p0.den),
                                p0.den * p1.den)
           IN  Clamp01(gap3)

\* A variant of getInferenceResult that builds a result without looking the
\* category up.
ResultForAnyCategory(inf, category) ==
  [category |-> category, traits |-> << >>, recommendedTrait |-> "",
   confidence |-> Rat(1, 1)]

getInferenceResult(inf, category) ==
  IF ~MapHas(inf.posteriors, category) THEN Null
  ELSE LET categoryPosteriors == MapGet(inf.posteriors, category)
       IN  [category         |-> category,
            traits           |-> categoryPosteriors,
            recommendedTrait |-> findHighestProbabilityTrait(categoryPosteriors).trait,
            confidence       |-> calculateConfidence(categoryPosteriors)]

getAllInferenceResults(inf) ==
  LET all == [i \in DOMAIN inf.posteriors |->
                getInferenceResult(inf, inf.posteriors[i].key)]
  IN  SelectSeq(all, LAMBDA r : r # Null)

(***************************************************************************)
(* Profiles.  JavaScript's truthiness decides what "unset" means: the      *)
(* empty string and the number 0 are falsy, an array never is.             *)
(***************************************************************************)
Falsy(s) == s = ""

FalsyNumber(x) == x.num = 0

\* A variant of extractEvidenceFromCharacter that reads the secondary style
\* as well.
ExtractWithSecondaryStyle(character) ==
  LET one(v) == IF Falsy(v) THEN << >> ELSE <<[trait |-> v, probability |-> 2]>>
  IN  one(character.psychologicalProfile.introversionExtroversion)
        \o one(character.psychologicalProfile.attachmentStyle)
        \o one(character.psychologicalProfile.trustLevel)
        \o one(character.socialHierarchyPosition.role)
        \o one(character.communication.primaryStyle)
        \o one(character.communication.secondaryStyle)

extractEvidenceFromCharacter(character) ==
  LET one(v) == IF Falsy(v) THEN << >> ELSE <<[trait |-> v, probability |-> 2]>>
  IN  one(character.psychologicalProfile.introversionExtroversion)
        \o one(character.psychologicalProfile.attachmentStyle)
        \o one(character.psychologicalProfile.trustLevel)
        \o one(character.socialHierarchyPosition.role)
        \o one(character.communication.primaryStyle)

(***************************************************************************)
(* JSON.parse(JSON.stringify(character)): strings, finite numbers, arrays  *)
(* and plain objects come back equal; a Date comes back as the string of   *)
(* its ISO form.  The copy is a new object.                                *)
(***************************************************************************)
JsonValue(v) ==
  IF v.type = "Date" THEN [type |-> "string", iso |-> v.iso] ELSE v

JsonRoundTrip(character) ==
  [character EXCEPT !.basicInfo =
     [f \in DOMAIN character.basicInfo |->
        IF f \in {"createdAt", "updatedAt"}
        THEN JsonValue(character.basicInfo[f])
        ELSE character.basicInfo[f]]]

\* Returns the heap with the copy allocated, and the reference to the copy.
\* A variant of DeepCopy that hands back the reference it was given.
SameReference(h, a) == [heap |-> h, ref |-> a]

DeepCopy(h, a) ==
  [heap |-> Append(h, JsonRoundTrip(h[a])), ref |-> Len(h) + 1]

(***************************************************************************)
(* autocompleteCharacter, one operator per field it may fill, in the       *)
(* order of the code: from the value the field has in the copy, the value  *)
(* it has after the block that fills it.                                   *)
(***************************************************************************)
\* A variant of TopEntries that does not sort.
FirstEntries(traits, n) ==
  Slice([i \in DOMAIN traits |-> [k |-> traits[i].value, trait |-> traits[i].key]], n)

\* Object.entries(result.traits).sort(([, a], [, b]) => b - a).slice(0, n)
TopEntries(traits, n) ==
  Slice(SortDesc([i \in DOMAIN traits |->
                    [k |-> traits[i].value, trait |-> traits[i].key]]), n)

FillIntroversionExtroversion(current, inf) ==
  IF Falsy(current)
  THEN LET result == getInferenceResult(inf, "introversionExtroversion")
       IN  IF result # Null THEN result.recommendedTrait ELSE current
  ELSE current

FillAttachmentStyle(current, inf) ==
  IF Falsy(current)
  THEN LET result == getInferenceResult(inf, "attachmentStyle")
       IN  IF result # Null THEN result.recommendedTrait ELSE current
  ELSE current

\* A variant of FillTrustLevel without the test for an unset field.
OverwriteTrustLevel(current, inf) ==
  LET result == getInferenceResult(inf, "trustLevel")
  IN  IF result # Null THEN result.recommendedTrait ELSE current

FillTrustLevel(current, inf) ==
  IF Falsy(current)
  THEN LET result == getInferenceResult(inf, "trustLevel")
       IN  IF result # Null THEN result.recommendedTrait ELSE current
  ELSE current

FillVulnerabilities(current, inf) ==
  IF current = << >>
  THEN LET result == getInferenceResult(inf, "vulnerabilities")
       IN  IF result # Null
           THEN LET top == TopEntries(result.traits, 3)
                IN  [i \in DOMAIN top |-> [type |-> top[i].trait, probability |-> top[i].k]]
           ELSE current
  ELSE current

FillRole(current, inf) ==
  IF Falsy(current)
  THEN LET result == getInferenceResult(inf, "socialRole")
       IN  IF result # Null THEN result.recommendedTrait ELSE current
  ELSE current

FillPrimaryStyle(current, inf) ==
  IF Falsy(current)
  THEN LET result == getInferenceResult(inf, "communicationStyle")
       IN  IF result # Null THEN result.recommendedTrait ELSE current
  ELSE current

\* The names every object literal inherits from Object.prototype: looked up
\* in emotionLogicMap they give the inherited member, which is truthy.
ObjectPrototypeKeys ==
  {"constructor", "hasOwnProperty", "isPrototypeOf", "propertyIsEnumerable",
   "toLocaleString", "toString", "valueOf", "__proto__", "__defineGetter__",
   "__defineSetter__", "__lookupGetter__", "__lookupSetter__"}

\* A variant of emotionLogicMap with the scale the other way round.
LogicEmotionMap(trait) ==
  CASE trait = "Highly emotional"     -> Rat(1, 10)
    [] trait = "Moderately emotional" -> Rat(3, 10)
    [] trait = "Balanced"             -> Rat(5, 10)
    [] trait = "Moderately logical"   -> Rat(7, 10)
    [] trait = "Highly logical"       -> Rat(9, 10)
    [] OTHER                          -> Rat(5, 10)

\* emotionLogicMap[recommendedTrait] || 0.5
emotionLogicMap(trait) ==
  CASE trait = "Highly emotional"     -> Rat(9, 10)
    [] trait = "Moderately emotional" -> Rat(7, 10)
    [] trait = "Balanced"             -> Rat(5, 10)
    [] trait = "Moderately logical"   -> Rat(3, 10)
    [] trait = "Highly logical"       -> Rat(1, 10)
    [] trait \in ObjectPrototypeKeys  -> [inherited |-> trait]
    [] OTHER                          -> Rat(5, 10)

FillEmotionVsLogic(current, inf) ==
  IF FalsyNumber(current)
  THEN LET result == getInferenceResult(inf, "emotionVsLogic")
       IN  IF result # Null THEN emotionLogicMap(result.recommendedTrait) ELSE current
  ELSE current

FillPacing(current, inf) ==
  IF Falsy(current)
  THEN LET result == getInferenceResult(inf, "decisionPacing")
       IN  IF result # Null THEN result.recommendedTrait ELSE current
  ELSE current

FillDesires(current, inf) ==
  IF current = << >>
  THEN LET result == getInferenceResult(inf, "desires")
       IN  IF result # Null
           THEN LET top == TopEntries(result.traits, 3)
                IN  [i \in DOMAIN top |-> [type |-> top[i].trait, strength |-> top[i].k]]
           ELSE current
  ELSE current

\* A variant of FillFears that takes the top two.
FillFearsTopTwo(current, inf) ==
  IF current = << >>
  THEN LET result == getInferenceResult(inf, "fears")
       IN  IF result # Null
           THEN LET top == TopEntries(result.traits, 2)
                IN  [i \in DOMAIN top |-> [type |-> top[i].trait, strength |-> top[i].k]]
           ELSE current
  ELSE current

FillFears(current, inf) ==
  IF current = << >>
  THEN LET result == getInferenceResult(inf, "fears")
       IN  IF result # Null
           THEN LET top == TopEntries(result.traits, 3)
                IN  [i \in DOMAIN top |-> [type |-> top[i].trait, strength |-> top[i].k]]
           ELSE current
  ELSE current

FillTriggers(current, inf) ==
  IF current = << >>
  THEN LET result == getInferenceResult(inf, "trustTriggers")
       IN  IF result # Null
           THEN LET top == TopEntries(result.traits, 3)
                IN  [i \in DOMAIN top |-> [type |-> top[i].trait, effectiveness |-> top[i].k]]
           ELSE current
  ELSE current

FillCoreAnchors(current, inf) ==
  IF current = << >>
  THEN LET result == getInferenceResult(inf, "identityAnchors")
       IN  IF result # Null
           THEN LET top == TopEntries(result.traits, 3)
                IN  [i \in DOMAIN top |-> [type |-> top[i].trait, centrality |-> top[i].k,
                                       visibility |-> Rat(5, 10)]]
           ELSE current
  ELSE current

\* The fills, in the order of the code.  Each block of the code tests one
\* field of the copy and assigns to that field only, so each field of the
\* result is the fill of that field of the copy c.
FillAll(c, inf) ==
  [c EXCEPT
     !.psychologicalProfile.introversionExtroversion =
        FillIntroversionExtroversion(@, inf),
     !.psychologicalProfile.attachmentStyle = FillAttachmentStyle(@, inf),
     !.psychologicalProfile.trustLevel = FillTrustLevel(@, inf),
     !.psychologicalProfile.likelyVulnerabilities = FillVulnerabilities(@, inf),
     !.socialHierarchyPosition.role = FillRole(@, inf),
     !.communication.primaryStyle = FillPrimaryStyle(@, inf),
     !.decisionMaking.emotionVsLogic = FillEmotionVsLogic(@, inf),
     !.decisionMaking.pacing = FillPacing(@, inf),
     !.motivationsInsecurities.desires = FillDesires(@, inf),
     !.motivationsInsecurities.fears = FillFears(@, inf),
     !.trustSignalsVulnerabilityMarkers.triggers = FillTriggers(@, inf),
     !.identityAnchors.coreAnchors = FillCoreAnchors(@, inf)]

\* copy: the heap with the deep copy allocated, and the reference to it.
Complete(copy, inf) ==
  [heap |-> [copy.heap EXCEPT ![copy.ref] = FillAll(@, inf)], ref |-> copy.ref]

\* A variant of autocompleteCharacter that infers a second time, from the
\* evidence of the profile as first completed, and fills from that.
AutocompleteFromFilled(h, a) ==
  LET first == Complete(DeepCopy(h, a),
                        performInference(extractEvidenceFromCharacter(h[a])))
  IN  Complete(DeepCopy(h, a),
               performInference(extractEvidenceFromCharacter(first.heap[first.ref])))

\* The object at reference a is the argument; the result names the object
\* returned.  The evidence is read from the argument before any field is
\* written.
autocompleteCharacter(h, a) ==
  Complete(DeepCopy(h, a), performInference(extractEvidenceFromCharacter(h[a])))

\* The tail of getSuggestedTraits, from the result for the category.
TopSuggestions(result, count) ==
  IF result = Null THEN << >>
  ELSE [i \in 1..Len(TopEntries(result.traits, count)) |->
          [trait       |-> TopEntries(result.traits, count)[i].trait,
           probability |-> TopEntries(result.traits, count)[i].k]]

getSuggestedTraits(character, category, count) ==
  TopSuggestions(
    getInferenceResult(performInference(extractEvidenceFromCharacter(character)),
                       category),
    count)

(***************************************************************************)
(* calculateCompatibility.  The four factors are in hundredths; the score  *)
(* is their sum over the number of factors.                                *)
(***************************************************************************)
Abs(x) == IF x < 0 THEN -x ELSE x

\* A number of the profile, in hundredths.
Hundredths(x) == (100 * x.num) \div x.den

getIntroversionExtroversionValue(ie) ==
  CASE ie = "Highly Introverted" -> 0
    [] ie = "Introverted"        -> 1
    [] ie = "Ambivert"           -> 2
    [] ie = "Extroverted"        -> 3
    [] ie = "Highly Extroverted" -> 4
    [] OTHER                     -> 2

\* A variant of AttachmentCompat without the branch for an Avoidant first
\* profile and an Anxious second one.
AnxiousAvoidantOneWay(as1, as2) ==
  IF as1 = "Secure" /\ as2 = "Secure" THEN 100
  ELSE IF as1 = "Anxious" /\ as2 = "Avoidant" THEN 30
  ELSE 50

\* if / else if / else on the two attachment styles
AttachmentCompat(as1, as2) ==
  IF as1 = "Secure" /\ as2 = "Secure" THEN 100
  ELSE IF as1 = "Anxious" /\ as2 = "Avoidant" THEN 30
  ELSE IF as1 = "Avoidant" /\ as2 = "Anxious" THEN 30
  ELSE 50

\* A variant of IntroExtroCompat that does not divide the distance by 4.
DistanceNotNormalized(ie1, ie2) ==
  100 - 100 * Abs(getIntroversionExtroversionValue(ie1)
                    - getIntroversionExtroversionValue(ie2))

\* 1 - Math.abs(value(ie1) - value(ie2)) / 4
IntroExtroCompat(ie1, ie2) ==
  100 - (100 * Abs(getIntroversionExtroversionValue(ie1)
                     - getIntroversionExtroversionValue(ie2))) \div 4

\* A variant of StyleCompat that takes Direct with Indirect in that order
\* only.
StyleCompatOneWay(style1, style2) ==
  IF style1 = style2 THEN 100
  ELSE IF style1 = "Direct" /\ style2 = "Indirect" THEN 40
  ELSE 60

\* A variant of StyleCompat that tests the Direct/Direct and
\* Analytical/Analytical pairs before the equal styles.
StyleCompatPairsFirst(style1, style2) ==
  IF \/ style1 = "Direct" /\ style2 = "Direct"
     \/ style1 = "Analytical" /\ style2 = "Analytical" THEN 90
  ELSE IF style1 = style2 THEN 100
  ELSE IF \/ style1 = "Direct" /\ style2 = "Indirect"
          \/ style1 = "Indirect" /\ style2 = "Direct" THEN 40
  ELSE 60

\* if / else if / else if / else on the two primary styles
StyleCompat(style1, style2) ==
  IF style1 = style2 THEN 100
  ELSE IF \/ style1 = "Direct" /\ style2 = "Direct"
          \/ style1 = "Analytical" /\ style2 = "Analytical" THEN 90
  ELSE IF \/ style1 = "Direct" /\ style2 = "Indirect"
          \/ style1 = "Indirect" /\ style2 = "Direct" THEN 40
  ELSE 60

\* 1 - Math.abs(emotionVsLogic1 - emotionVsLogic2)
DecisionMakingCompat(evl1, evl2) == 100 - Abs(Hundredths(evl1) - Hundredths(evl2))

\* compatibilityScore / totalFactors
calculateCompatibility(character1, character2) ==
  LET compatibilityScore ==
        AttachmentCompat(character1.psychologicalProfile.attachmentStyle,
                         character2.psychologicalProfile.attachmentStyle)
          + IntroExtroCompat(character1.psychologicalProfile.introversionExtroversion,
                             character2.psychologicalProfile.introversionExtroversion)
          + StyleCompat(character1.communication.primaryStyle,
                        character2.communication.primaryStyle)
          + DecisionMakingCompat(character1.decisionMaking.emotionVsLogic,
                                 character2.decisionMaking.emotionVsLogic)
      totalFactors == 1 + 1 + 1 + 1
  IN  Rat(compatibilityScore, 100 * totalFactors)

(***************************************************************************)
(* generateRapportStrategy.  Array.prototype.sort sorts the array it is    *)
(* called on, in place, and returns it: the two sort calls below act on    *)
(* the lists of the profile that was passed in.                            *)
(***************************************************************************)
SortTriggers(triggers) ==
  LET s == SortDesc([i \in DOMAIN triggers |->
                       [k |-> triggers[i].effectiveness, item |-> triggers[i]]])
  IN  [i \in DOMAIN s |-> s[i].item]

SortDesires(desires) ==
  LET s == SortDesc([i \in DOMAIN desires |->
                       [k |-> desires[i].strength, item |-> desires[i]]])
  IN  [i \in DOMAIN s |-> s[i].item]

IntroversionStrategies(ie) ==
  IF ie = "Highly Introverted" \/ ie = "Introverted"
  THEN <<"Give them space and time to process",
         "Prefer deeper one-on-one conversations over group settings",
         "Don't force them to socialize extensively">>
  ELSE IF ie = "Extroverted" \/ ie = "Highly Extroverted"
  THEN <<"Engage in active, energetic conversations",
         "Include them in group activities",
         "Be receptive to their need to verbally process thoughts">>
  ELSE << >>

AttachmentStrategies(as) ==
  IF as = "Anxious"
  THEN <<"Provide regular reassurance and check-ins",
         "Be consistent and reliable in communication",
         "Acknowledge their feelings and concerns">>
  ELSE IF as = "Avoidant"
  THEN <<"Respect their need for independence",
         "Don't push for emotional disclosure too quickly",
         "Give them space when they seem overwhelmed">>
  ELSE IF as = "Fearful-Avoidant"
  THEN <<"Be patient with mixed signals",
         "Maintain consistent, non-threatening presence",
         "Avoid pressuring for commitment or deep emotional sharing">>
  ELSE << >>

StyleStrategies(style) ==
  IF style = "Direct"
  THEN <<"Be straightforward and honest",
         "Don't beat around the bush",
         "Appreciate their frankness rather than taking offense">>
  ELSE IF style = "Indirect"
  THEN <<"Pay attention to subtle cues and hints",
         "Ask clarifying questions gently",
         "Don't force direct confrontation">>
  ELSE IF style = "Analytical"
  THEN <<"Provide logical reasoning and evidence",
         "Focus on facts and specific details",
         "Respect their need to analyze before deciding">>
  ELSE IF style = "Emotional"
  THEN <<"Acknowledge and validate their feelings",
         "Show empathy and emotional attunement",
         "Don't dismiss emotional reactions as irrational">>
  ELSE << >>

\* sorted: the trigger list after the in-place sort
TriggerStrategies(sorted) ==
  IF Len(sorted) > 0
  THEN LET mostEffectiveTrigger == sorted[1]
       IN  CASE mostEffectiveTrigger.type = "Shared interests" ->
                  <<"Find and discuss common interests or hobbies">>
             [] mostEffectiveTrigger.type = "Vulnerability disclosure" ->
                  <<"Share appropriate personal struggles or challenges">>
             [] mostEffectiveTrigger.type = "Consistent behavior" ->
                  <<"Be reliable and consistent in your actions">>
             [] mostEffectiveTrigger.type = "Shared values" ->
                  <<"Identify and emphasize shared values or beliefs">>
             [] mostEffectiveTrigger.type = "Shared emotional language" ->
                  <<"Mirror their emotional expression style">>
             [] OTHER -> << >>
  ELSE << >>

\* sorted: the desire list after the in-place sort
DesireStrategies(sorted) ==
  IF Len(sorted) > 0
  THEN LET strongestDesire == sorted[1]
       IN  CASE strongestDesire.type = "Belonging" ->
                  <<"Create a sense of inclusion and acceptance">>
             [] strongestDesire.type = "Recognition" ->
                  <<"Acknowledge their achievements and contributions">>
             [] strongestDesire.type = "Being understood" ->
                  <<"Show that you truly understand their perspective">>
             [] strongestDesire.type = "Achievement" ->
                  <<"Recognize their competence and accomplishments">>
             [] OTHER -> << >>
  ELSE << >>

\* A variant of generateRapportStrategy that pushes the communication-style
\* strings before the attachment-style strings.
RapportStyleFirst(h, a) ==
  LET character == h[a]
      triggers  == SortTriggers(character.trustSignalsVulnerabilityMarkers.triggers)
      desires   == SortDesires(character.motivationsInsecurities.desires)
  IN  [heap |-> [h EXCEPT ![a].trustSignalsVulnerabilityMarkers.triggers = triggers,
                          ![a].motivationsInsecurities.desires = desires],
       strategies |->
         IntroversionStrategies(character.psychologicalProfile.introversionExtroversion)
           \o StyleStrategies(character.communication.primaryStyle)
           \o AttachmentStrategies(character.psychologicalProfile.attachmentStyle)
           \o TriggerStrategies(triggers)
           \o DesireStrategies(desires)]

\* The object at reference a is the argument.  Returns the strategies and
\* the heap as the call leaves it.
generateRapportStrategy(h, a) ==
  LET character == h[a]
      triggers  == SortTriggers(character.trustSignalsVulnerabilityMarkers.triggers)
      desires   == SortDesires(character.motivationsInsecurities.desires)
  IN  [heap |-> [h EXCEPT ![a].trustSignalsVulnerabilityMarkers.triggers = triggers,
                          ![a].motivationsInsecurities.desires = desires],
       strategies |->
         IntroversionStrategies(character.psychologicalProfile.introversionExtroversion)
           \o AttachmentStrategies(character.psychologicalProfile.attachmentStyle)
           \o StyleStrategies(character.communication.primaryStyle)
           \o TriggerStrategies(triggers)
           \o DesireStrategies(desires)]

(***************************************************************************)
(* Profiles.  A profile holds the fields the engine and the provider read. *)
(***************************************************************************)
Character(ie, as, tl, vulnerabilities, role, style, secondary, evl, pacing, desires, fears, triggers, anchors) ==
  [basicInfo |-> [createdAt |-> [type |-> "Date", iso |-> 1]],
   psychologicalProfile |->
     [introversionExtroversion |-> ie,
      attachmentStyle          |-> as,
      trustLevel               |-> tl,
      likelyVulnerabilities    |-> vulnerabilities],
   socialHierarchyPosition |-> [role |-> role],
   motivationsInsecurities |-> [desires |-> desires, fears |-> fears],
   trustSignalsVulnerabilityMarkers |-> [triggers |-> triggers],
   communication |-> [primaryStyle |-> style, secondaryStyle |-> secondary],
   decisionMaking |-> [emotionVsLogic |-> evl, pacing |-> pacing],
   identityAnchors |-> [coreAnchors |-> anchors]]

\* new Date(): the model has one instant.
Now == [type |-> "Date", iso |-> 1]

\* createNewCharacter().  id is the value uuidv4() returned.
createNewCharacter(id) ==
  [Character("Ambivert", "Secure", "Neutral", << >>, "Follower", "Direct", "",
             Rat(5, 10), "Moderate", << >>, << >>, << >>, << >>)
     EXCEPT !.basicInfo = [id |-> id, name |-> "", createdAt |-> Now, updatedAt |-> Now]]

(***************************************************************************)
(* The provider: a reducer over the application state, and two effects     *)
(* that load the lists from local storage when the application starts and  *)
(* save them when they change.  An item of local storage is held as the    *)
(* value its JSON text parses to; Null is an item that is not set.         *)
(***************************************************************************)
\* null where a character id is expected
NoCharacter == "<null>"

\* An item of local storage that is set.
Item(value) == [value |-> value]

MaxCharacters == 2
MaxRelationships == 1

CharacterIds == {"c1", "c2"}

RelationshipIds == {"rel_1", "rel_2"}

Names == {"", "Ann"}

initialState ==
  [characters          |-> << >>,
   relationships       |-> << >>,
   selectedCharacterId |-> NoCharacter,
   theme               |-> "dark",
   notification        |-> [show |-> FALSE, message |-> "", type |-> "info"]]

NoItems == [characters |-> Null, relationships |-> Null, theme |-> Null]

\* A variant of DeleteCharacter that keeps the relationships.
DeleteCharacterOnly(s, characterId) ==
  [s EXCEPT
     !.characters = SelectSeq(@, LAMBDA character : character.basicInfo.id # characterId),
     !.selectedCharacterId = IF @ = characterId THEN NoCharacter ELSE @]

\* case 'DELETE_CHARACTER'
DeleteCharacterCase(s, characterId) ==
  [s EXCEPT
     !.characters = SelectSeq(@, LAMBDA character : character.basicInfo.id # characterId),
     !.relationships =
        SelectSeq(@, LAMBDA relationship :
                       relationship.sourceId # characterId
                         /\ relationship.targetId # characterId),
     !.selectedCharacterId = IF @ = characterId THEN NoCharacter ELSE @]

\* Array.prototype.find by id: the first match, or Null
FindCharacter(characters, id) ==
  LET hits == {i \in DOMAIN characters : characters[i].basicInfo.id = id}
  IN  IF hits = {} THEN Null ELSE characters[Min(hits)]

characterReducer(s, action) ==
  CASE action.type = "ADD_CHARACTER" ->
         [s EXCEPT !.characters = Append(@, action.character)]
    [] action.type = "UPDATE_CHARACTER" ->
         [s EXCEPT !.characters =
            [i \in DOMAIN @ |->
               IF @[i].basicInfo.id = action.character.basicInfo.id
               THEN action.character ELSE @[i]]]
    [] action.type = "DELETE_CHARACTER" -> DeleteCharacterCase(s, action.characterId)
    [] action.type = "SELECT_CHARACTER" ->
         [s EXCEPT !.selectedCharacterId = action.characterId]
    [] action.type = "ADD_RELATIONSHIP" ->
         [s EXCEPT !.relationships = Append(@, action.relationship)]
    [] action.type = "UPDATE_RELATIONSHIP" ->
         [s EXCEPT !.relationships =
            [i \in DOMAIN @ |->
               IF @[i].id = action.relationship.id THEN action.relationship ELSE @[i]]]
    [] action.type = "DELETE_RELATIONSHIP" ->
         [s EXCEPT !.relationships =
            SelectSeq(@, LAMBDA relationship : relationship.id # action.relationshipId)]
    [] action.type = "SET_CHARACTERS" -> [s EXCEPT !.characters = action.characters]
    [] action.type = "SET_RELATIONSHIPS" ->
         [s EXCEPT !.relationships = action.relationships]
    [] action.type = "TOGGLE_THEME" ->
         [s EXCEPT !.theme = IF @ = "dark" THEN "light" ELSE "dark"]
    [] action.type = "SET_UI_STATE" ->
         [s EXCEPT !.notification = action.uiState.notification]
    [] OTHER -> s

\* dispatch of a list of actions, one after the other.
RECURSIVE Dispatch(_, _)
Dispatch(s, actions) ==
  IF actions = << >> THEN s
  ELSE Dispatch(characterReducer(s, Head(actions)), Tail(actions))

Notify(message, type) ==
  [type |-> "SET_UI_STATE",
   uiState |-> [notification |-> [show |-> TRUE, message |-> message, type |-> type]]]

\* name || alias || 'Unknown' of a character, or of undefined
DisplayName(character) ==
  IF character = Null \/ Falsy(character.basicInfo.name)
  THEN "Unknown" ELSE character.basicInfo.name

\* JSON.parse(JSON.stringify(list)) of a list of characters.
StringifyCharacters(characters) ==
  [i \in DOMAIN characters |-> JsonRoundTrip(characters[i])]

\* A relationship of the model holds strings and finite numbers, which JSON
\* gives back equal.
StringifyRelationships(relationships) == relationships

\* if (state.characters.length > 0 || state.relationships.length > 0)
SaveGuard(s) == Len(s.characters) > 0 \/ Len(s.relationships) > 0

\* The save effect, run after a render in which characters, relationships
\* or theme changed.
saveToLocalStorage(s, items) ==
  IF SaveGuard(s)
  THEN [characters    |-> Item(StringifyCharacters(s.characters)),
        relationships |-> Item(StringifyRelationships(s.relationships)),
        theme         |-> Item(s.theme)]
  ELSE items

\* The load effect of the first render, on the initial state.
loadFromLocalStorage(items) ==
  Dispatch(initialState,
    (IF items.characters # Null
     THEN <<[type |-> "SET_CHARACTERS", characters |-> items.characters.value]>>
     ELSE << >>)
    \o (IF items.relationships # Null
        THEN <<[type |-> "SET_RELATIONSHIPS", relationships |-> items.relationships.value]>>
        ELSE << >>)
    \o (IF items.theme \in {Item("light"), Item("dark")}
           /\ items.theme # Item(initialState.theme)
        THEN <<[type |-> "TOGGLE_THEME"]>> ELSE << >>))

(***************************************************************************)
(* Inputs.                                                                 *)
(***************************************************************************)
\* Evidence traits offered to performInference: with reinforcing rows, with
\* a suppressive row and a row whose trait has no prior ("Highly
\* Skeptical"), with no row at all ("Neutral"), and not a trait at all.
EvidenceTraits ==
  {"Highly Introverted", "Anxious", "Highly Skeptical", "Neutral",
   "nonexistent-evidence"}

\* Evidence offered with the alternate tables.
FixtureEvidenceTraits == {"quad", "kill", "nonexistent-evidence"}

\* A weight of one half is offered where every multiplier it applies to has
\* a square root that is a whole number of tenths.
Representable(item) ==
  item.probability = 1 =>
    \A i \in DOMAIN likelihoods :
      likelihoods[i].evidence = item.trait => HasExactRoot(likelihoods[i].multiplier)

EvidenceLists(traits) ==
  LET items == {it \in [trait : traits, probability : 0..2] : Representable(it)}
  IN  UNION {[1..n -> items] : n \in 0..MaxEvidence}

\* The lists a user has entered: all empty, or all populated (the trigger
\* and desire lists not in descending order).
UserLists ==
  {[vulnerabilities |-> << >>, desires |-> << >>, fears |-> << >>,
    triggers |-> << >>, anchors |-> << >>],
   [vulnerabilities |-> <<[type |-> "Perfectionism", probability |-> Rat(6, 10)]>>,
    desires  |-> <<[type |-> "Freedom", strength |-> Rat(3, 10)],
                   [type |-> "Belonging", strength |-> Rat(8, 10)]>>,
    fears    |-> <<[type |-> "Failure", strength |-> Rat(5, 10)]>>,
    triggers |-> <<[type |-> "Shared humor", effectiveness |-> Rat(2, 10)],
                   [type |-> "Shared values", effectiveness |-> Rat(9, 10)],
                   [type |-> "Active listening", effectiveness |-> Rat(9, 10)]>>,
    anchors  |-> <<[type |-> "Relationships", centrality |-> Rat(7, 10),
                    visibility |-> Rat(2, 10)]>>]}

\* Trust level, social role and primary style, set together or not at all.
SocialChoices ==
  {[trustLevel |-> "", role |-> "", primaryStyle |-> ""],
   [trustLevel |-> "Highly Skeptical", role |-> "", primaryStyle |-> "Direct"],
   [trustLevel |-> "", role |-> "Leader", primaryStyle |-> "Emotional"]}

\* emotionVsLogic (0 = purely logical, 1 = purely emotional) and pacing.
DecisionChoices ==
  {[emotionVsLogic |-> Rat(0, 10), pacing |-> ""],
   [emotionVsLogic |-> Rat(4, 10), pacing |-> "Fast"],
   [emotionVsLogic |-> Rat(10, 10), pacing |-> ""]}

Profiles ==
  {Character(ie, as, s.trustLevel, l.vulnerabilities, s.role, s.primaryStyle, "",
             d.emotionVsLogic, d.pacing, l.desires, l.fears, l.triggers, l.anchors) :
     ie \in {"", "Highly Introverted", "Highly Extroverted"},
     as \in {"", "Anxious"},
     s \in SocialChoices, d \in DecisionChoices, l \in UserLists}

\* The profiles compatibility is computed between: every combination of
\* attachment style, introversion bucket, primary style and emotion-vs-logic
\* value, each set holding the unset value.
PairProfiles ==
  {Character(ie, as, "", << >>, "", style, "", evl, "", << >>, << >>, << >>, << >>) :
     ie \in {"", "Highly Introverted", "Introverted", "Highly Extroverted"},
     as \in {"", "Secure", "Anxious", "Avoidant"},
     style \in {"", "Direct", "Indirect", "Analytical"},
     evl \in {Rat(0, 10), Rat(4, 10), Rat(6, 10), Rat(10, 10)}}

\* The profiles evidence is extracted from: each of the five fields read set
\* or unset, and the secondary style, the decision values and the lists set
\* or unset beside them.
ExtractProfiles ==
  {Character(ie, as, tl, l.vulnerabilities, role, style, secondary,
             d.emotionVsLogic, d.pacing, l.desires, l.fears, l.triggers, l.anchors) :
     ie \in {"", "Introverted"}, as \in {"", "Secure"}, tl \in {"", "Trusting"},
     role \in {"", "Connector"}, style \in {"", "Reserved"},
     secondary \in {"", "Analytical"}, d \in DecisionChoices, l \in UserLists}

\* The profiles whose decision-making values are filled: the evidence that
\* has a likelihood row for an emotion-vs-logic bucket (three attachment
\* styles, two primary styles) set or not, and emotion-vs-logic 0 or set.
DecisionProfiles ==
  {Character(ie, as, "", << >>, "", style, "", evl, "", << >>, << >>, << >>, << >>) :
     ie \in {"", "Highly Introverted"},
     as \in {"", "Anxious", "Avoidant", "Secure"},
     style \in {"", "Analytical", "Emotional"},
     evl \in {Rat(0, 10), Rat(4, 10)}}

\* A category of fewer traits than MaxCount, a category of more traits
\* (several of equal prior), and a category that is not in the table.
SuggestCategories == {"attachmentStyle", "trustTriggers", "unknownCategory"}

SuggestCounts == {0, MaxCount}

(***************************************************************************)
(* Initial states: the tables the module was loaded with, and either an    *)
(* evidence list or a profile supplied by the caller.                      *)
(***************************************************************************)
InitEngine ==
  /\ kb = "shipped"
  /\ heap = << >>
  /\ evidence \in EvidenceLists(EvidenceTraits)
  /\ inference = Null
  /\ ret = [op |-> "none"]
  /\ calls = 0
  /\ state = initialState
  /\ localStorage = NoItems

InitProfile ==
  /\ kb = "shipped"
  /\ heap \in {<<p>> : p \in Profiles}
  /\ evidence = << >>
  /\ inference = Null
  /\ ret = [op |-> "none"]
  /\ calls = 0
  /\ state = initialState
  /\ localStorage = NoItems

\* The alternate tables and an evidence list.
InitFixture ==
  /\ kb = "fixture"
  /\ heap = << >>
  /\ evidence \in EvidenceLists(FixtureEvidenceTraits)
  /\ inference = Null
  /\ ret = [op |-> "none"]
  /\ calls = 0
  /\ state = initialState
  /\ localStorage = NoItems

\* The trust-trigger lists and desire lists rapport strategies are made
\* from: empty; two entries of equal highest number; the highest entry of a
\* type that has a strategy; the highest entry of a type that has none.
TriggerLists ==
  {<< >>,
   <<[type |-> "Shared humor", effectiveness |-> Rat(2, 10)],
     [type |-> "Shared values", effectiveness |-> Rat(9, 10)],
     [type |-> "Active listening", effectiveness |-> Rat(9, 10)]>>,
   <<[type |-> "Shared interests", effectiveness |-> Rat(5, 10)],
     [type |-> "Consistent behavior", effectiveness |-> Rat(7, 10)]>>,
   <<[type |-> "Active listening", effectiveness |-> Rat(8, 10)],
     [type |-> "Shared values", effectiveness |-> Rat(3, 10)]>>}

DesireLists ==
  {<< >>,
   <<[type |-> "Freedom", strength |-> Rat(3, 10)],
     [type |-> "Belonging", strength |-> Rat(8, 10)]>>,
   <<[type |-> "Recognition", strength |-> Rat(6, 10)],
     [type |-> "Achievement", strength |-> Rat(6, 10)]>>,
   <<[type |-> "Freedom", strength |-> Rat(9, 10)],
     [type |-> "Being understood", strength |-> Rat(2, 10)]>>}

\* The profiles rapport strategies are made for: every value of the three
\* scalar fields read, the unset value included, with each pair of lists.
RapportProfiles ==
  {Character(ie, as, "", << >>, "", style, "", Rat(0, 10), "", desires, << >>, triggers, << >>) :
     ie \in {"", "Highly Introverted", "Introverted", "Ambivert", "Extroverted",
             "Highly Extroverted"},
     as \in {"", "Secure", "Anxious", "Avoidant", "Fearful-Avoidant"},
     style \in {"", "Direct", "Indirect", "Reserved", "Analytical", "Emotional"},
     triggers \in TriggerLists, desires \in DesireLists}

\* A profile rapport strategies are made for.
InitRapport ==
  /\ kb = "shipped"
  /\ heap \in {<<p>> : p \in RapportProfiles}
  /\ evidence = << >>
  /\ inference = Null
  /\ ret = [op |-> "none"]
  /\ calls = 0
  /\ state = initialState
  /\ localStorage = NoItems

\* Any of the three pairs of tables, for the lookups alone.
InitLookup ==
  /\ kb \in DOMAIN KnowledgeBases
  /\ heap = << >>
  /\ evidence = << >>
  /\ inference = Null
  /\ ret = [op |-> "none"]
  /\ calls = 0
  /\ state = initialState
  /\ localStorage = NoItems

\* The application as it starts in a browser whose local storage is empty.
InitProvider ==
  /\ kb = "shipped"
  /\ heap = << >>
  /\ evidence = << >>
  /\ inference = Null
  /\ ret = [op |-> "none"]
  /\ calls = 0
  /\ state = initialState
  /\ localStorage = NoItems

\* One profile, or two, as createNewCharacter makes them.
InitNewCharacter ==
  /\ kb = "shipped"
  /\ heap \in {<<createNewCharacter(id)>> : id \in CharacterIds}
              \cup {<<createNewCharacter("c1"), createNewCharacter("c2")>>}
  /\ evidence = << >>
  /\ inference = Null
  /\ ret = [op |-> "none"]
  /\ calls = 0
  /\ state = initialState
  /\ localStorage = NoItems

\* Two profiles supplied by the caller.
InitPair ==
  /\ kb = "shipped"
  /\ heap \in {<<p, q>> : p \in PairProfiles, q \in PairProfiles}
  /\ evidence = << >>
  /\ inference = Null
  /\ ret = [op |-> "none"]
  /\ calls = 0
  /\ state = initialState
  /\ localStorage = NoItems

\* A profile evidence is extracted from.
InitExtract ==
  /\ kb = "shipped"
  /\ heap \in {<<p>> : p \in ExtractProfiles}
  /\ evidence = << >>
  /\ inference = Null
  /\ ret = [op |-> "none"]
  /\ calls = 0
  /\ state = initialState
  /\ localStorage = NoItems

\* A profile whose decision-making values are to be filled.
InitDecision ==
  /\ kb = "shipped"
  /\ heap \in {<<p>> : p \in DecisionProfiles}
  /\ evidence = << >>
  /\ inference = Null
  /\ ret = [op |-> "none"]
  /\ calls = 0
  /\ state = initialState
  /\ localStorage = NoItems

Init == InitEngine \/ InitProfile \/ InitFixture

(***************************************************************************)
(* Actions: one call of an exported function each.                         *)
(***************************************************************************)
PerformInference ==
  /\ calls < MaxCalls
  /\ inference' = performInference(evidence)
  /\ ret' = [op |-> "performInference"]
  /\ calls' = calls + 1
  /\ UNCHANGED <<state, localStorage, kb, heap, evidence>>

GetInferenceResult ==
  /\ calls < MaxCalls
  /\ inference # Null
  /\ \E category \in {priors[i].category : i \in DOMAIN priors} \cup {"unknownCategory"} :
       ret' = [op |-> "getInferenceResult", category |-> category,
               value |-> getInferenceResult(inference, category)]
  /\ calls' = calls + 1
  /\ UNCHANGED <<state, localStorage, kb, heap, evidence, inference>>

GetAllInferenceResults ==
  /\ calls < MaxCalls
  /\ inference # Null
  /\ ret' = [op |-> "getAllInferenceResults", value |-> getAllInferenceResults(inference)]
  /\ calls' = calls + 1
  /\ UNCHANGED <<state, localStorage, kb, heap, evidence, inference>>

ExtractEvidence ==
  /\ calls < MaxCalls
  /\ \E a \in DOMAIN heap :
       /\ evidence' = extractEvidenceFromCharacter(heap[a])
       /\ ret' = [op |-> "extractEvidenceFromCharacter", arg |-> a, value |-> evidence']
  /\ calls' = calls + 1
  /\ UNCHANGED <<state, localStorage, kb, heap, inference>>

Autocomplete ==
  /\ calls < MaxCalls
  /\ Len(heap) < MaxObjects
  /\ \E a \in DOMAIN heap :
       LET r == autocompleteCharacter(heap, a)
       IN  /\ heap' = r.heap
           /\ ret' = [op |-> "autocompleteCharacter", arg |-> a, value |-> r.ref]
  /\ calls' = calls + 1
  /\ UNCHANGED <<state, localStorage, kb, evidence, inference>>

\* A variant of GetSuggestedTraits that answers from the last inference
\* computed, when there is one, instead of computing its own.
GetSuggestedTraitsFromCache ==
  /\ calls < MaxCalls
  /\ \E a \in DOMAIN heap, category \in SuggestCategories, count \in SuggestCounts :
       ret' = [op |-> "getSuggestedTraits", arg |-> a, category |-> category,
               count |-> count,
               value |-> IF inference # Null
                         THEN TopSuggestions(getInferenceResult(inference, category), count)
                         ELSE getSuggestedTraits(heap[a], category, count)]
  /\ calls' = calls + 1
  /\ UNCHANGED <<state, localStorage, kb, heap, evidence, inference>>

GetSuggestedTraits ==
  /\ calls < MaxCalls
  /\ \E a \in DOMAIN heap, category \in SuggestCategories, count \in SuggestCounts :
       ret' = [op |-> "getSuggestedTraits", arg |-> a, category |-> category,
               count |-> count,
               value |-> getSuggestedTraits(heap[a], category, count)]
  /\ calls' = calls + 1
  /\ UNCHANGED <<state, localStorage, kb, heap, evidence, inference>>

CalculateCompatibility ==
  /\ calls < MaxCalls
  /\ \E a, b \in DOMAIN heap :
       ret' = [op |-> "calculateCompatibility", arg |-> a, other |-> b,
               value |-> calculateCompatibility(heap[a], heap[b])]
  /\ calls' = calls + 1
  /\ UNCHANGED <<state, localStorage, kb, heap, evidence, inference>>

GenerateRapportStrategy ==
  /\ calls < MaxCalls
  /\ \E a \in DOMAIN heap :
       LET r == generateRapportStrategy(heap, a)
       IN  /\ heap' = r.heap
           /\ ret' = [op |-> "generateRapportStrategy", arg |-> a, value |-> r.strategies]
  /\ calls' = calls + 1
  /\ UNCHANGED <<state, localStorage, kb, evidence, inference>>

\* The arguments the prior lookup is called with: the pair of each row, and
\* each row's trait and category beside a name that is in no row.
PriorArguments ==
  UNION {{<<priors[i].trait, priors[i].category>>,
          <<priors[i].trait, "any-category">>,
          <<"nonexistent-trait", priors[i].category>>,
          <<"nonexistent-trait", "any-category">>} : i \in DOMAIN priors}

\* The arguments the likelihood lookup is called with, likewise.
LikelihoodArguments ==
  UNION {{<<likelihoods[i].evidence, likelihoods[i].trait>>,
          <<likelihoods[i].evidence, "nonexistent-trait">>,
          <<"nonexistent-evidence", likelihoods[i].trait>>,
          <<"nonexistent-evidence", "nonexistent-trait">>} : i \in DOMAIN likelihoods}

GetPrior ==
  /\ calls < MaxCalls
  /\ \E arg \in PriorArguments :
       ret' = [op |-> "getPrior", trait |-> arg[1], category |-> arg[2],
               value |-> getPrior(arg[1], arg[2])]
  /\ calls' = calls + 1
  /\ UNCHANGED <<state, localStorage, kb, heap, evidence, inference>>

GetLikelihoodMultiplier ==
  /\ calls < MaxCalls
  /\ \E arg \in LikelihoodArguments :
       ret' = [op |-> "getLikelihoodMultiplier", evidence |-> arg[1], trait |-> arg[2],
               value |-> getLikelihoodMultiplier(arg[1], arg[2])]
  /\ calls' = calls + 1
  /\ UNCHANGED <<state, localStorage, kb, heap, evidence, inference>>

(***************************************************************************)
(* The provider's functions.  Each dispatches its actions; the save effect *)
(* runs after the render that follows when one of the values it depends on *)
(* changed.                                                                *)
(***************************************************************************)
\* The relationships a user can enter.
RelationshipData ==
  [sourceId : CharacterIds, targetId : CharacterIds, type : {"Friend"}, trust : {5, 8}]

AddCharacter ==
  /\ Len(state.characters) < MaxCharacters
  /\ \E id \in CharacterIds, name \in Names :
       /\ FindCharacter(state.characters, id) = Null
       /\ localStorage.characters # Null =>
            FindCharacter(localStorage.characters.value, id) = Null
       /\ LET newCharacter    == createNewCharacter(id)
               mergedCharacter == [newCharacter EXCEPT !.basicInfo.name = name,
                                                       !.basicInfo.updatedAt = Now]
           IN  /\ state' = Dispatch(state,
                     <<[type |-> "ADD_CHARACTER", character |-> mergedCharacter],
                       Notify(<<"Character", DisplayName(mergedCharacter), "created">>,
                              "success")>>)
               /\ ret' = [op |-> "addCharacter", id |-> id]
  /\ localStorage' = saveToLocalStorage(state', localStorage)
  /\ UNCHANGED <<kb, heap, evidence, inference, calls>>

UpdateCharacter ==
  /\ \E i \in DOMAIN state.characters, name \in Names :
       LET updatedCharacter == [state.characters[i] EXCEPT !.basicInfo.name = name,
                                                           !.basicInfo.updatedAt = Now]
       IN  /\ state' = Dispatch(state,
                 <<[type |-> "UPDATE_CHARACTER", character |-> updatedCharacter],
                   Notify(<<"Character", DisplayName(updatedCharacter), "updated">>,
                          "success")>>)
           /\ ret' = [op |-> "updateCharacter", id |-> updatedCharacter.basicInfo.id]
  /\ localStorage' = saveToLocalStorage(state', localStorage)
  /\ UNCHANGED <<kb, heap, evidence, inference, calls>>

DeleteCharacter ==
  /\ \E characterId \in CharacterIds :
       LET character == FindCharacter(state.characters, characterId)
       IN  /\ state' = Dispatch(state,
                 <<[type |-> "DELETE_CHARACTER", characterId |-> characterId],
                   Notify(<<"Character", DisplayName(character), "deleted">>, "info")>>)
           /\ ret' = [op |-> "deleteCharacter", id |-> characterId]
  /\ localStorage' = saveToLocalStorage(state', localStorage)
  /\ UNCHANGED <<kb, heap, evidence, inference, calls>>

SelectCharacter ==
  /\ \E characterId \in CharacterIds \cup {NoCharacter} :
       /\ state' = characterReducer(state,
                      [type |-> "SELECT_CHARACTER", characterId |-> characterId])
       /\ ret' = [op |-> "selectCharacter", id |-> characterId]
  /\ UNCHANGED <<localStorage, kb, heap, evidence, inference, calls>>

AddRelationship ==
  /\ Len(state.relationships) < MaxRelationships
  /\ \E id \in RelationshipIds, relationshipData \in RelationshipData :
       /\ \A i \in DOMAIN state.relationships : state.relationships[i].id # id
       /\ LET relationship == [id |-> id, sourceId |-> relationshipData.sourceId,
                               targetId |-> relationshipData.targetId,
                               type |-> relationshipData.type,
                               trust |-> relationshipData.trust]
           IN  /\ state' = Dispatch(state,
                     <<[type |-> "ADD_RELATIONSHIP", relationship |-> relationship],
                       Notify(<<"Relationship created">>, "success")>>)
               /\ ret' = [op |-> "addRelationship", id |-> id]
  /\ localStorage' = saveToLocalStorage(state', localStorage)
  /\ UNCHANGED <<kb, heap, evidence, inference, calls>>

UpdateRelationship ==
  /\ \E i \in DOMAIN state.relationships, trust \in {5, 8} :
       LET relationship == [state.relationships[i] EXCEPT !.trust = trust]
       IN  /\ state' = Dispatch(state,
                 <<[type |-> "UPDATE_RELATIONSHIP", relationship |-> relationship],
                   Notify(<<"Relationship updated">>, "success")>>)
           /\ ret' = [op |-> "updateRelationship", id |-> relationship.id]
  /\ localStorage' = saveToLocalStorage(state', localStorage)
  /\ UNCHANGED <<kb, heap, evidence, inference, calls>>

DeleteRelationship ==
  /\ \E relationshipId \in RelationshipIds :
       /\ state' = Dispatch(state,
             <<[type |-> "DELETE_RELATIONSHIP", relationshipId |-> relationshipId],
               Notify(<<"Relationship deleted">>, "info")>>)
       /\ ret' = [op |-> "deleteRelationship", id |-> relationshipId]
  /\ localStorage' = saveToLocalStorage(state', localStorage)
  /\ UNCHANGED <<kb, heap, evidence, inference, calls>>

ToggleTheme ==
  /\ state' = characterReducer(state, [type |-> "TOGGLE_THEME"])
  /\ ret' = [op |-> "toggleTheme"]
  /\ localStorage' = saveToLocalStorage(state', localStorage)
  /\ UNCHANGED <<kb, heap, evidence, inference, calls>>

\* The page is loaded anew: the reducer starts from initialState, the load
\* effect reads local storage, and the save effect runs on what was loaded.
Reload ==
  /\ state' = loadFromLocalStorage(localStorage)
  /\ localStorage' = saveToLocalStorage(state', localStorage)
  /\ ret' = [op |-> "reload"]
  /\ UNCHANGED <<kb, heap, evidence, inference, calls>>

NextProvider ==
  \/ AddCharacter
  \/ UpdateCharacter
  \/ DeleteCharacter
  \/ SelectCharacter
  \/ AddRelationship
  \/ UpdateRelationship
  \/ DeleteRelationship
  \/ ToggleTheme
  \/ Reload

NextEngine == PerformInference \/ GetInferenceResult \/ GetAllInferenceResults

NextProfile ==
  \/ ExtractEvidence
  \/ Autocomplete
  \/ GetSuggestedTraits
  \/ CalculateCompatibility
  \/ GenerateRapportStrategy

Next == NextEngine \/ NextProfile

\* Every call, from either kind of input.
Spec == Init /\ [][Next]_vars

\* The inference engine on evidence lists.
SpecEngine == InitEngine /\ [][NextEngine]_vars

\* The inference engine on the alternate tables.
SpecFixture == InitFixture /\ [][NextEngine]_vars

\* The inference engine on the shipped and on the alternate tables.
SpecTables == (InitEngine \/ InitFixture) /\ [][NextEngine]_vars

\* The compatibility scorer on pairs of profiles.
SpecPair == InitPair /\ [][CalculateCompatibility]_vars

\* The extraction of evidence from profiles.
SpecExtract == InitExtract /\ [][ExtractEvidence]_vars

\* The completion of profiles by the evidence that bears on decision making.
SpecDecision == InitDecision /\ [][Autocomplete]_vars

\* The provider: characters and relationships added, updated, deleted and
\* reloaded from local storage.
SpecProvider == InitProvider /\ [][NextProvider]_vars

\* The suggestion layer and the heuristics on new profiles.
SpecNewCharacter == InitNewCharacter /\ [][NextProfile]_vars

\* The two lookups on each pair of tables.
SpecLookup == InitLookup /\ [][GetPrior \/ GetLikelihoodMultiplier]_vars

\* The rapport strategies of profiles.
SpecRapport == InitRapport /\ [][GenerateRapportStrategy]_vars

\* The suggestion layer and the heuristics on profiles.
SpecProfile == InitProfile /\ [][NextProfile]_vars

(***************************************************************************)
(* Properties of the inference engine.  The score of a trait and the       *)
(* normalization constant of a category are written out here from the      *)
(* tables, independently of the operators above.                           *)
(***************************************************************************)
\* likelihoodOf(e.trait, t) ^ e.weight, in tenths
WeightedFactor(item, trait) ==
  LET m == FindMultiplier(likelihoods, item.trait, trait)
  IN  CASE item.probability = 0 -> 10
        [] item.probability = 2 -> m
        [] item.probability = 1 -> CHOOSE r \in 0..(m + 10) : r * r = 10 * m

\* prior(t, C) times the factor of every evidence item
Score(row, ev) ==
  LET upTo[n \in 0..Len(ev)] ==
        IF n = 0 THEN row.probability
        ELSE upTo[n - 1] * WeightedFactor(ev[n], row.trait)
  IN  upTo[Len(ev)]

SumOf(numbers) ==
  LET upTo[n \in 0..Len(numbers)] ==
        IF n = 0 THEN 0 ELSE upTo[n - 1] + numbers[n]
  IN  upTo[Len(numbers)]

Scores(category, ev) ==
  LET rows == FilterCategory(priors, category)
  IN  [i \in DOMAIN rows |-> Score(rows[i], ev)] @@ << >>

PriorCategories == {priors[i].category : i \in DOMAIN priors}

\* The posterior computed for a trait of a category.
PosteriorIn(inf, category, trait) == MapGet(MapGet(inf.posteriors, category), trait)

Computed == ret.op = "performInference" /\ inference # Null

\* In [0, 1].
InUnitInterval(x) == ~RatLess(x, Zero) /\ ~RatLess(Rat(1, 1), x)

\* C1: for every category with at least one prior and every evidence list,
\* the posteriors performInference computes for the category add up to 1, or
\* are all 0; the sum is over the traits of that one category.
PosteriorsSumToOnePerCategory ==
  Computed =>
    \A category \in PriorCategories :
      /\ MapHas(inference.posteriors, category)
      /\ LET traits == MapGet(inference.posteriors, category)
             nums   == [j \in DOMAIN traits |-> traits[j].value.num] @@ << >>
         IN  /\ Len(traits) >= 1
             /\ \A j \in DOMAIN traits : traits[j].value.den > 0
             /\ \/ \A j \in DOMAIN traits : nums[j] = 0
                \/ \A j \in DOMAIN traits : traits[j].value.den = SumOf(nums)

\* C1 happens: evidence of positive weight has moved a posterior of a
\* category of twelve traits away from its prior.
PosteriorsSumToOneSeen ==
  /\ Computed
  /\ \E i \in DOMAIN evidence : evidence[i].probability > 0
  /\ RatLess(Rat(FindPrior(priors, "Fear of abandonment", "vulnerabilities"),
                 SumOf([i \in DOMAIN FilterCategory(priors, "vulnerabilities") |->
                          FilterCategory(priors, "vulnerabilities")[i].probability])),
             PosteriorIn(inference, "vulnerabilities", "Fear of abandonment"))

\* C2: the posterior of each trait t of each category C is score(t) / Z, with
\* score(t) the prior of t times, for each evidence item, the likelihood
\* multiplier raised to the item's weight, and Z the sum of the scores of
\* C's traits; an item of weight 0 changes no posterior (leaving it out gives
\* the same fractions) and an item of weight 1 applies the whole multiplier.
PosteriorIsScoreOverZ ==
  Computed =>
    /\ \A category \in PriorCategories :
         LET rows   == FilterCategory(priors, category)
             scores == Scores(category, evidence)
             Z      == SumOf(scores)
         IN  \A i \in DOMAIN rows :
               PosteriorIn(inference, category, rows[i].trait)
                 = [num |-> scores[i], den |-> Z]
    /\ LET kept    == SelectSeq(evidence, LAMBDA e : e.probability # 0)
           scale   == Pow10(Len(evidence) - Len(kept))
           without == performInference(kept)
       IN  \A i \in DOMAIN priors :
             LET full == PosteriorIn(inference, priors[i].category, priors[i].trait)
                 base == PosteriorIn(without, priors[i].category, priors[i].trait)
             IN  full.num = scale * base.num /\ full.den = scale * base.den

\* C2 happens: the evidence holds an item of weight 0 and an item of weight 1,
\* each for evidence that has a multiplier other than 1 in the table.
PosteriorIsScoreOverZSeen ==
  /\ Computed
  /\ \E i, j \in DOMAIN evidence :
       /\ evidence[i].probability = 0
       /\ evidence[j].probability = 2
       /\ \E k \in DOMAIN likelihoods :
            likelihoods[k].evidence = evidence[i].trait /\ likelihoods[k].multiplier # 10
       /\ \E k \in DOMAIN likelihoods :
            likelihoods[k].evidence = evidence[j].trait /\ likelihoods[k].multiplier # 10

\* The first row of the category, in table order, whose posterior no other
\* row of the category exceeds.
FirstMaximal(inf, category) ==
  LET rows == FilterCategory(priors, category)
      p(i) == PosteriorIn(inf, category, rows[i].trait)
      maximal == {i \in DOMAIN rows : \A j \in DOMAIN rows : ~RatLess(p(i), p(j))}
  IN  rows[Min(maximal)].trait

\* C3: the recommendedTrait of a result is a trait of the category whose
\* posterior is the category's maximum, and of several traits at the maximum
\* it is the one declared first in the prior table.
RecommendedIsFirstMaximum ==
  (ret.op = "getInferenceResult" /\ ret.value # Null) =>
    /\ ret.category \in PriorCategories
    /\ ret.value.recommendedTrait
         \in {priors[i].trait : i \in {k \in DOMAIN priors : priors[k].category = ret.category}}
    /\ ret.value.recommendedTrait = FirstMaximal(inference, ret.category)

\* C3 happens: two traits of trustTriggers share the maximum and the result
\* names the one declared first.
RecommendedIsFirstMaximumSeen ==
  /\ ret.op = "getInferenceResult"
  /\ ret.category = "trustTriggers"
  /\ ret.value # Null
  /\ ret.value.recommendedTrait = "Shared interests"
  /\ PosteriorIn(inference, "trustTriggers", "Relatability")
       = PosteriorIn(inference, "trustTriggers", "Shared interests")

\* C9: when the normalization constant of a category is 0, every posterior of
\* the category is 0 (a number: the denominator is not 0) and the category
\* still has a result.
ZeroNormalizationGivesZeros ==
  Computed =>
    \A category \in PriorCategories :
      SumOf(Scores(category, evidence)) = 0 =>
        /\ MapHas(inference.posteriors, category)
        /\ \A j \in DOMAIN MapGet(inference.posteriors, category) :
             LET p == MapGet(inference.posteriors, category)[j].value
             IN  p.num = 0 /\ p.den > 0
        /\ getInferenceResult(inference, category) # Null
        /\ \A j \in DOMAIN getInferenceResult(inference, category).traits :
             getInferenceResult(inference, category).traits[j].value.num = 0

\* C9 happens: evidence of full weight whose multiplier is 0 for every trait
\* has taken the constant of a category of positive priors to 0.
ZeroNormalizationSeen ==
  /\ Computed
  /\ \E i \in DOMAIN evidence : evidence[i].trait = "kill" /\ evidence[i].probability = 2
  /\ SumOf(Scores("tieCat", evidence)) = 0
  /\ SumOf(Scores("tieCat", << >>)) > 0
  /\ Len(MapGet(inference.posteriors, "tieCat")) = 3

\* C10: with no evidence the posterior of every trait is its prior divided by
\* the sum of the priors of its category; for attachmentStyle that is Secure
\* 0.55, Anxious 0.20, Avoidant 0.20, Fearful-Avoidant 0.05, and the
\* recommended trait is Secure.
EmptyEvidenceGivesNormalizedPriors ==
  (Computed /\ evidence = << >>) =>
    /\ \A category \in PriorCategories :
         LET rows  == FilterCategory(priors, category)
             total == SumOf([i \in DOMAIN rows |-> rows[i].probability])
         IN  \A i \in DOMAIN rows :
               RatEq(PosteriorIn(inference, category, rows[i].trait),
                     Rat(rows[i].probability, total))
    /\ RatEq(PosteriorIn(inference, "attachmentStyle", "Secure"), Rat(55, 100))
    /\ RatEq(PosteriorIn(inference, "attachmentStyle", "Anxious"), Rat(20, 100))
    /\ RatEq(PosteriorIn(inference, "attachmentStyle", "Avoidant"), Rat(20, 100))
    /\ RatEq(PosteriorIn(inference, "attachmentStyle", "Fearful-Avoidant"), Rat(5, 100))
    /\ Len(MapGet(inference.posteriors, "attachmentStyle")) = 4
    /\ getInferenceResult(inference, "attachmentStyle").recommendedTrait = "Secure"

\* C10 happens: performInference has run on the empty list, and a category
\* whose priors do not add up to 1 has been renormalized.
EmptyEvidenceSeen ==
  /\ Computed
  /\ evidence = << >>
  /\ kb = "shipped"
  /\ PosteriorIn(inference, "vulnerabilities", "Overthinking") = Rat(35, 255)

\* The evidence list without its i-th item.
Without(ev, i) == SubSeq(ev, 1, i - 1) \o SubSeq(ev, i + 1, Len(ev))

\* No row of the likelihood table is about this evidence trait.
Unlisted(name) == \A k \in DOMAIN likelihoods : likelihoods[k].evidence # name

\* C11: an evidence item whose trait appears in no likelihood row changes no
\* posterior: whatever its weight and whatever else the evidence list holds,
\* the posterior of every trait of every category is the one computed from
\* the list without that item.
UnlistedEvidenceIsNeutral ==
  Computed =>
    \A i \in DOMAIN evidence :
      Unlisted(evidence[i].trait) =>
        LET without == performInference(Without(evidence, i))
        IN  \A r \in DOMAIN priors :
              LET full == PosteriorIn(inference, priors[r].category, priors[r].trait)
                  base == PosteriorIn(without, priors[r].category, priors[r].trait)
              IN  full.num = 10 * base.num /\ full.den = 10 * base.den

\* C11 happens: an unlisted evidence trait of full weight stands next to
\* evidence that has moved a posterior away from its prior.
UnlistedEvidenceSeen ==
  /\ Computed
  /\ Len(evidence) = 2
  /\ \E i \in DOMAIN evidence :
       /\ Unlisted(evidence[i].trait)
       /\ evidence[i].probability = 2
       /\ PosteriorIn(performInference(Without(evidence, i)),
                      "vulnerabilities", "Fear of abandonment")
            # PosteriorIn(performInference(<< >>), "vulnerabilities", "Fear of abandonment")

\* C12: from the single evidence item (Highly Introverted, weight 1) the
\* scores of socialRole are Leader 0.10, Follower 0.50, Connector 0.15,
\* Outlier 0.30, Gatekeeper 0.05 and Mediator 0.05, which add up to 1.15;
\* the posteriors are these over 1.15 and the recommended trait is Follower.
SocialRoleScenario ==
  (Computed /\ evidence = <<[trait |-> "Highly Introverted", probability |-> 2]>>) =>
    /\ Scores("socialRole", evidence) = <<100, 500, 150, 300, 50, 50>>
    /\ SumOf(Scores("socialRole", evidence)) = 1150
    /\ MapGet(inference.posteriors, "socialRole")
         = <<[key |-> "Leader",     value |-> Rat(100, 1150)],
             [key |-> "Follower",   value |-> Rat(500, 1150)],
             [key |-> "Connector",  value |-> Rat(150, 1150)],
             [key |-> "Outlier",    value |-> Rat(300, 1150)],
             [key |-> "Gatekeeper", value |-> Rat(50, 1150)],
             [key |-> "Mediator",   value |-> Rat(50, 1150)]>>
    /\ getInferenceResult(inference, "socialRole").recommendedTrait = "Follower"

\* C12 happens: the inference was computed from that one item, and Outlier,
\* whose prior equals Connector's, now stands above it.
SocialRoleScenarioSeen ==
  /\ Computed
  /\ evidence = <<[trait |-> "Highly Introverted", probability |-> 2]>>
  /\ getPrior("Outlier", "socialRole") = getPrior("Connector", "socialRole")
  /\ RatLess(PosteriorIn(inference, "socialRole", "Connector"),
             PosteriorIn(inference, "socialRole", "Outlier"))

\* Three times the gap between the two largest posteriors of a category of
\* at least two traits.  The posteriors of a category share a denominator.
TopGapTimes3(traits) ==
  LET first  == CHOOSE i \in DOMAIN traits :
                  \A j \in DOMAIN traits : ~RatLess(traits[i].value, traits[j].value)
      second == CHOOSE i \in DOMAIN traits \ {first} :
                  \A j \in DOMAIN traits \ {first} :
                    ~RatLess(traits[i].value, traits[j].value)
  IN  Rat(3 * (traits[first].value.num - traits[second].value.num),
          traits[first].value.den)

ConfidenceIsClampedGap(result) ==
  /\ InUnitInterval(result.confidence)
  /\ Len(result.traits) < 2 => result.confidence = Rat(1, 1)
  /\ Len(result.traits) >= 2 =>
       LET gap3 == TopGapTimes3(result.traits)
       IN  /\ gap3.num >= 0
           /\ gap3.num > gap3.den => RatEq(result.confidence, Rat(1, 1))
           /\ gap3.num <= gap3.den => RatEq(result.confidence, gap3)

\* C13: the confidence of every inference result is three times the gap
\* between the two largest posteriors of its category, cut to [0, 1], so it
\* lies in [0, 1]; for a category of fewer than two traits it is 1.
ConfidenceIsClampedGapTimes3 ==
  /\ (ret.op = "getInferenceResult" /\ ret.value # Null) =>
       ConfidenceIsClampedGap(ret.value)
  /\ ret.op = "getAllInferenceResults" =>
       \A i \in DOMAIN ret.value : ConfidenceIsClampedGap(ret.value[i])

\* C13 happens: one call has returned a result for a category of one trait
\* and a result whose gap times 3 is above 1.
ConfidenceCasesSeen ==
  /\ ret.op = "getAllInferenceResults"
  /\ \E i \in DOMAIN ret.value :
       Len(ret.value[i].traits) = 1 /\ ret.value[i].confidence = Rat(1, 1)
  /\ \E i \in DOMAIN ret.value :
       /\ Len(ret.value[i].traits) >= 2
       /\ TopGapTimes3(ret.value[i].traits).num > TopGapTimes3(ret.value[i].traits).den

(***************************************************************************)
(* Comparison of the engine with the engine on a likelihood table in which *)
(* one multiplier is 1.0.  The scores under that table are written out     *)
(* here from the rows, apart from the operators of the engine.             *)
(***************************************************************************)
\* a/b < c/d for b, d > 0 and a, c >= 0, by whole parts and remainders.
RECURSIVE FracLess(_, _, _, _)
FracLess(a, b, c, d) ==
  IF a \div b # c \div d THEN a \div b < c \div d
  ELSE IF c % d = 0 THEN FALSE
  ELSE IF a % b = 0 THEN TRUE
  ELSE FracLess(d, c % d, b, a % b)

\* The likelihood rows with the multiplier of row r set to 1.0.
Lowered(rows, r) == [rows EXCEPT ![r].multiplier = 10]

\* The score of a prior row under the likelihood rows given.
ScoreIn(rows, row, ev) ==
  LET factor(item) ==
        LET m == FindMultiplier(rows, item.trait, row.trait)
        IN  CASE item.probability = 0 -> 10
              [] item.probability = 2 -> m
              [] item.probability = 1 -> CHOOSE x \in 0..(m + 10) : x * x = 10 * m
      upTo[n \in 0..Len(ev)] ==
        IF n = 0 THEN row.probability ELSE upTo[n - 1] * factor(ev[n])
  IN  upTo[Len(ev)]

\* Row r has a multiplier above 1.0 and its evidence is in the list with
\* weight 1, every item for that evidence having weight 0 or 1.
RaisedAndApplied(r) ==
  /\ likelihoods[r].multiplier > 10
  /\ \E i \in DOMAIN evidence :
       evidence[i].trait = likelihoods[r].evidence /\ evidence[i].probability = 2
  /\ \A i \in DOMAIN evidence :
       evidence[i].trait = likelihoods[r].evidence => evidence[i].probability # 1

\* C21: take a likelihood row (e, t) whose multiplier is k > 1.0, with e in
\* the evidence at weight 1.  Against the same table with that multiplier at
\* 1.0, the score of t is strictly higher, the score of every other trait of
\* each category of t is the same, and the posterior of t is not lower.
RaisedMultiplierRaisesScore ==
  Computed =>
    \A r \in DOMAIN likelihoods :
      RaisedAndApplied(r) =>
        \A c \in PriorCategories :
          LET rows == FilterCategory(priors, c)
              base == [i \in DOMAIN rows |->
                         ScoreIn(Lowered(likelihoods, r), rows[i], evidence)] @@ << >>
          IN  \A i \in DOMAIN rows :
                LET now == PosteriorIn(inference, c, rows[i].trait)
                IN  IF rows[i].trait = likelihoods[r].trait
                    THEN /\ now.num > base[i]
                         /\ ~FracLess(now.num, now.den, base[i], SumOf(base))
                    ELSE now.num = base[i]

\* C21 happens: Highly Introverted, whose row for Outlier has multiplier
\* 2.0, is in the evidence at weight 1 and the posterior of Outlier stands
\* above the posterior it has with that multiplier at 1.0.
RaisedMultiplierSeen ==
  /\ Computed
  /\ \E r \in DOMAIN likelihoods :
       /\ likelihoods[r].evidence = "Highly Introverted"
       /\ likelihoods[r].trait = "Outlier"
       /\ RaisedAndApplied(r)
       /\ LET rows == FilterCategory(priors, "socialRole")
               base == [i \in DOMAIN rows |->
                          ScoreIn(Lowered(likelihoods, r), rows[i], evidence)] @@ << >>
               now  == PosteriorIn(inference, "socialRole", "Outlier")
           IN  FracLess(base[4], SumOf(base), now.num, now.den)

(***************************************************************************)
(* Properties of the calls that take a profile.  After a call ret.arg is   *)
(* the reference the call was given; a step of a call is recognised by the *)
(* operation it records and the call count it advances.                    *)
(***************************************************************************)
Called(op) == ret'.op = op /\ calls' = calls + 1




\* C4: autocompleteCharacter changes no field that is populated in its
\* input: a non-empty scalar trait field, a non-empty list, a non-empty
\* decision pacing and an emotion-vs-logic value anywhere in [0, 1] have the
\* same value in the output as in the input.
PopulatedFieldsKept ==
  [][Called("autocompleteCharacter") =>
       LET given  == heap[ret'.arg]
           result == heap'[ret'.value]
       IN  /\ given.psychologicalProfile.introversionExtroversion # "" =>
                result.psychologicalProfile.introversionExtroversion
                  = given.psychologicalProfile.introversionExtroversion
           /\ given.psychologicalProfile.attachmentStyle # "" =>
                result.psychologicalProfile.attachmentStyle
                  = given.psychologicalProfile.attachmentStyle
           /\ given.psychologicalProfile.trustLevel # "" =>
                result.psychologicalProfile.trustLevel
                  = given.psychologicalProfile.trustLevel
           /\ given.socialHierarchyPosition.role # "" =>
                result.socialHierarchyPosition.role = given.socialHierarchyPosition.role
           /\ given.communication.primaryStyle # "" =>
                result.communication.primaryStyle = given.communication.primaryStyle
           /\ given.psychologicalProfile.likelyVulnerabilities # << >> =>
                result.psychologicalProfile.likelyVulnerabilities
                  = given.psychologicalProfile.likelyVulnerabilities
           /\ given.motivationsInsecurities.desires # << >> =>
                result.motivationsInsecurities.desires
                  = given.motivationsInsecurities.desires
           /\ given.motivationsInsecurities.fears # << >> =>
                result.motivationsInsecurities.fears = given.motivationsInsecurities.fears
           /\ given.trustSignalsVulnerabilityMarkers.triggers # << >> =>
                result.trustSignalsVulnerabilityMarkers.triggers
                  = given.trustSignalsVulnerabilityMarkers.triggers
           /\ given.identityAnchors.coreAnchors # << >> =>
                result.identityAnchors.coreAnchors = given.identityAnchors.coreAnchors
           /\ given.decisionMaking.pacing # "" =>
                result.decisionMaking.pacing = given.decisionMaking.pacing
           /\ InUnitInterval(given.decisionMaking.emotionVsLogic) =>
                result.decisionMaking.emotionVsLogic = given.decisionMaking.emotionVsLogic
    ]_vars

\* C5: generateRapportStrategy leaves the profile it was given as it was,
\* the order of its trust-trigger list and of its desire list included.
RapportStrategyLeavesProfile ==
  [][Called("generateRapportStrategy") => heap'[ret'.arg] = heap[ret'.arg]]_vars

\* C6: autocompleteCharacter returns a profile object that did not exist
\* before the call, and the profile passed to it, like every other object, is
\* after the call what it was before.
AutocompleteReturnsNewProfile ==
  [][Called("autocompleteCharacter") =>
       /\ ret'.value \notin DOMAIN heap
       /\ ret'.value \in DOMAIN heap'
       /\ \A a \in DOMAIN heap : heap'[a] = heap[a]
    ]_vars

\* C6 happens: autocompleteCharacter has returned a profile in which it has
\* filled scalar fields and lists the input left unset.
AutocompleteFilledSeen ==
  /\ ret.op = "autocompleteCharacter"
  /\ ret.value # ret.arg
  /\ heap[ret.arg].psychologicalProfile.trustLevel = ""
  /\ heap[ret.value].psychologicalProfile.trustLevel # ""
  /\ heap[ret.arg].motivationsInsecurities.desires = << >>
  /\ heap[ret.value].motivationsInsecurities.desires # << >>

\* C7: autocompleteCharacter applied to a profile it returned gives an equal
\* profile.  The object at reference 1 is the caller's; every other object
\* is a profile autocompleteCharacter returned.
AutocompleteIdempotent ==
  (ret.op = "autocompleteCharacter" /\ ret.arg > 1) =>
    heap[ret.value] = heap[ret.arg]

\* C7 happens: the second run was given the output of a first run that had
\* filled fields of a profile with nothing set.
AutocompleteTwiceSeen ==
  /\ ret.op = "autocompleteCharacter"
  /\ ret.arg = 2
  /\ ret.value = 3
  /\ heap[1].psychologicalProfile.introversionExtroversion = ""
  /\ heap[1].psychologicalProfile.attachmentStyle = ""
  /\ heap[1].psychologicalProfile.trustLevel = ""
  /\ heap[1].identityAnchors.coreAnchors = << >>
  /\ heap[2].psychologicalProfile.trustLevel # ""
  /\ heap[2].identityAnchors.coreAnchors # << >>

\* C8: for a category with no prior entries getInferenceResult returns null
\* and getSuggestedTraits returns the empty list, and getAllInferenceResults
\* returns one result for each category of the prior table, in the table's
\* order, and nothing else.
UnknownCategoryIsNoResult ==
  /\ (ret.op = "getInferenceResult" /\ ret.category \notin PriorCategories) =>
       ret.value = Null
  /\ (ret.op = "getSuggestedTraits" /\ ret.category \notin PriorCategories) =>
       ret.value = << >>
  /\ ret.op = "getAllInferenceResults" =>
       /\ Len(ret.value) = Cardinality(PriorCategories)
       /\ \A i \in DOMAIN ret.value :
            /\ ret.value[i] # Null
            /\ ret.value[i].category = CategoriesOf(priors)[i]

\* C8 happens: getInferenceResult was asked for a category that is not in
\* the prior table.
UnknownCategorySeen ==
  /\ ret.op = "getInferenceResult"
  /\ inference # Null
  /\ ret.category = "unknownCategory"
  /\ ret.category \notin PriorCategories
  /\ ret.value = Null

(***************************************************************************)
(* Properties of calculateCompatibility.  After a call ret.arg and         *)
(* ret.other are the references of the two profiles it was given.          *)
(***************************************************************************)
\* C14: calculateCompatibility returns a number in [0, 1] for every two
\* profiles whose emotion-vs-logic values are in [0, 1], whatever their
\* attachment styles, introversion buckets and primary styles, unset ones
\* included.
CompatibilityInUnitInterval ==
  (/\ ret.op = "calculateCompatibility"
   /\ InUnitInterval(heap[ret.arg].decisionMaking.emotionVsLogic)
   /\ InUnitInterval(heap[ret.other].decisionMaking.emotionVsLogic)) =>
    InUnitInterval(ret.value)

\* C14 happens: a profile with nothing set and emotion-vs-logic 0 was scored
\* against a profile at the far end of both scales.
CompatibilityOfUnsetSeen ==
  /\ ret.op = "calculateCompatibility"
  /\ heap[ret.arg].psychologicalProfile.attachmentStyle = ""
  /\ heap[ret.arg].psychologicalProfile.introversionExtroversion = ""
  /\ heap[ret.arg].communication.primaryStyle = ""
  /\ heap[ret.arg].decisionMaking.emotionVsLogic = Rat(0, 10)
  /\ heap[ret.other].psychologicalProfile.introversionExtroversion = "Highly Extroverted"
  /\ heap[ret.other].psychologicalProfile.attachmentStyle = "Avoidant"
  /\ heap[ret.other].communication.primaryStyle = "Direct"
  /\ heap[ret.other].decisionMaking.emotionVsLogic = Rat(10, 10)

\* C15: the score is the unweighted mean of four factors: attachment (1 if
\* both are Secure, 0.3 for an Anxious and an Avoidant profile in either
\* order, otherwise 0.5), introversion (1 less a quarter of the distance on
\* the five-point scale), communication style (1 for equal styles, 0.4 for
\* Direct with Indirect, otherwise 0.6) and decision making (1 less the
\* absolute difference of the emotion-vs-logic values).  Two Secure profiles
\* of the same bucket, both Direct, with values 0.4 and 0.6, score 0.95.
CompatibilityIsMeanOfFourFactors ==
  ret.op = "calculateCompatibility" =>
    LET p == heap[ret.arg]
        q == heap[ret.other]
        styles == {p.psychologicalProfile.attachmentStyle,
                   q.psychologicalProfile.attachmentStyle}
        attachment == IF styles = {"Secure"} THEN 100
                      ELSE IF styles = {"Anxious", "Avoidant"} THEN 30 ELSE 50
        introversion ==
          100 - 25 * Abs(getIntroversionExtroversionValue(
                            p.psychologicalProfile.introversionExtroversion)
                         - getIntroversionExtroversionValue(
                             q.psychologicalProfile.introversionExtroversion))
        spoken == {p.communication.primaryStyle, q.communication.primaryStyle}
        communication == IF Cardinality(spoken) = 1 THEN 100
                         ELSE IF spoken = {"Direct", "Indirect"} THEN 40 ELSE 60
        decision == 100 - Abs(Hundredths(p.decisionMaking.emotionVsLogic)
                              - Hundredths(q.decisionMaking.emotionVsLogic))
    IN  /\ ret.value = Rat(attachment + introversion + communication + decision, 400)
        /\ (/\ styles = {"Secure"}
            /\ p.psychologicalProfile.introversionExtroversion
                 = q.psychologicalProfile.introversionExtroversion
            /\ spoken = {"Direct"}
            /\ {p.decisionMaking.emotionVsLogic, q.decisionMaking.emotionVsLogic}
                 = {Rat(4, 10), Rat(6, 10)})
           => RatEq(ret.value, Rat(95, 100))

\* C15 happens: an Avoidant profile was scored against an Anxious one, in
\* that order, with different buckets, styles and emotion-vs-logic values.
CompatibilityOfMixedPairSeen ==
  /\ ret.op = "calculateCompatibility"
  /\ heap[ret.arg].psychologicalProfile.attachmentStyle = "Avoidant"
  /\ heap[ret.other].psychologicalProfile.attachmentStyle = "Anxious"
  /\ heap[ret.arg].psychologicalProfile.introversionExtroversion = "Introverted"
  /\ heap[ret.other].psychologicalProfile.introversionExtroversion = "Highly Extroverted"
  /\ heap[ret.arg].communication.primaryStyle = "Indirect"
  /\ heap[ret.other].communication.primaryStyle = "Direct"
  /\ heap[ret.arg].decisionMaking.emotionVsLogic = Rat(4, 10)
  /\ heap[ret.other].decisionMaking.emotionVsLogic = Rat(10, 10)
  /\ ret.value = Rat(30 + 25 + 40 + 40, 400)

(***************************************************************************)
(* Properties of getSuggestedTraits.                                       *)
(***************************************************************************)
\* The place of a trait among the rows of its category.
Declared(category, trait) ==
  Min({i \in DOMAIN FilterCategory(priors, category) :
         FilterCategory(priors, category)[i].trait = trait})

\* s stands before t in the order of the suggestions: its probability is
\* higher, or the same and it is declared first.
StandsBefore(category, s, t) ==
  \/ RatLess(t.probability, s.probability)
  \/ /\ RatEq(t.probability, s.probability)
     /\ Declared(category, s.trait) < Declared(category, t.trait)

\* C16: getSuggestedTraits(profile, category, n) returns min(n, number of
\* traits of the category) entries; each is a trait of the category with its
\* posterior under the evidence extracted from the profile; they are the
\* highest ones, in non-increasing order of probability, and entries of equal
\* probability stand in the order the prior table declares them.
SuggestionsAreTopPosteriorsInOrder ==
  (ret.op = "getSuggestedTraits" /\ ret.category \in PriorCategories) =>
    LET rows == FilterCategory(priors, ret.category)
        inf  == performInference(extractEvidenceFromCharacter(heap[ret.arg]))
        all  == {[trait |-> rows[i].trait,
                  probability |-> PosteriorIn(inf, ret.category, rows[i].trait)] :
                   i \in DOMAIN rows}
        given == {ret.value[i] : i \in DOMAIN ret.value}
    IN  /\ Len(ret.value) = IF ret.count < Len(rows) THEN ret.count ELSE Len(rows)
        /\ given \subseteq all
        /\ \A i, j \in DOMAIN ret.value :
             i < j => StandsBefore(ret.category, ret.value[i], ret.value[j])
        /\ \A s \in given, t \in all \ given : StandsBefore(ret.category, s, t)

\* C16 happens: five of the twelve trust triggers were asked for, and two
\* neighbours of the answer have the same probability.
SuggestionsWithTieSeen ==
  /\ ret.op = "getSuggestedTraits"
  /\ ret.category = "trustTriggers"
  /\ ret.count = 5
  /\ Len(ret.value) = 5
  /\ ret.value[1].probability = ret.value[2].probability
  /\ RatLess(ret.value[5].probability, ret.value[1].probability)

(***************************************************************************)
(* Independence of the calls.                                              *)
(***************************************************************************)
\* What the last call returned is what the same call returns when it is the
\* only call made, on arguments of the same content.
ResultFromArgumentsAlone ==
  CASE ret.op = "performInference" -> inference = performInference(evidence)
    [] ret.op = "getInferenceResult" ->
         ret.value = getInferenceResult(inference, ret.category)
    [] ret.op = "getAllInferenceResults" ->
         ret.value = getAllInferenceResults(inference)
    [] ret.op = "extractEvidenceFromCharacter" ->
         ret.value = extractEvidenceFromCharacter(heap[ret.arg])
    [] ret.op = "getSuggestedTraits" ->
         ret.value = getSuggestedTraits(heap[ret.arg], ret.category, ret.count)
    [] ret.op = "autocompleteCharacter" ->
         heap[ret.value] = autocompleteCharacter(<<heap[ret.arg]>>, 1).heap[2]
    [] ret.op = "calculateCompatibility" ->
         ret.value = calculateCompatibility(heap[ret.arg], heap[ret.other])
    [] ret.op = "generateRapportStrategy" ->
         ret.value = generateRapportStrategy(<<heap[ret.arg]>>, 1).strategies
    [] OTHER -> ret.op = "none"

EvidenceIsTheFiveSetFields ==
  ret.op = "extractEvidenceFromCharacter" =>
    LET c == heap[ret.arg]
        fields == <<c.psychologicalProfile.introversionExtroversion,
                    c.psychologicalProfile.attachmentStyle,
                    c.psychologicalProfile.trustLevel,
                    c.socialHierarchyPosition.role,
                    c.communication.primaryStyle>>
        set == SelectSeq(fields, LAMBDA v : v # "")
    IN  /\ Len(ret.value) = Len(set)
        /\ \A i \in DOMAIN ret.value :
             ret.value[i] = [trait |-> set[i], probability |-> 2]

\* C18 happens: evidence was extracted from a profile with the first, third
\* and fourth of the five fields set, and with a secondary style, lists and
\* decision-making values set as well.
EvidenceOfPartProfileSeen ==
  /\ ret.op = "extractEvidenceFromCharacter"
  /\ heap[ret.arg].psychologicalProfile.attachmentStyle = ""
  /\ heap[ret.arg].communication.primaryStyle = ""
  /\ heap[ret.arg].communication.secondaryStyle = "Analytical"
  /\ heap[ret.arg].decisionMaking.pacing = "Fast"
  /\ heap[ret.arg].motivationsInsecurities.desires # << >>
  /\ ret.value = <<[trait |-> "Introverted", probability |-> 2],
                   [trait |-> "Trusting", probability |-> 2],
                   [trait |-> "Connector", probability |-> 2]>>

(***************************************************************************)
(* Properties of what autocompleteCharacter fills in.                      *)
(***************************************************************************)
\* The entries (type, value) are three different traits of the category,
\* each with its posterior, in non-increasing order, and no other trait of
\* the category has a higher posterior than the last of them.
IsTopThree(entries, category, inf) ==
  LET rows  == FilterCategory(priors, category)
      names == {rows[i].trait : i \in DOMAIN rows}
      given == {entries[i].type : i \in DOMAIN entries}
  IN  /\ Len(entries) = 3
      /\ Cardinality(given) = 3
      /\ given \subseteq names
      /\ \A i \in DOMAIN entries :
           entries[i].value = PosteriorIn(inf, category, entries[i].type)
      /\ \A i, j \in DOMAIN entries :
           i < j => ~RatLess(entries[i].value, entries[j].value)
      /\ \A t \in names \ given :
           ~RatLess(entries[3].value, PosteriorIn(inf, category, t))

\* The trait is the recommended trait of the category: one of its traits,
\* of the highest posterior.
IsRecommended(trait, category, inf) ==
  LET rows == FilterCategory(priors, category)
  IN  /\ \E i \in DOMAIN rows : rows[i].trait = trait
      /\ \A i \in DOMAIN rows :
           ~RatLess(PosteriorIn(inf, category, trait),
                    PosteriorIn(inf, category, rows[i].trait))
      /\ trait = getInferenceResult(inf, category).recommendedTrait

\* C19: in the profile autocompleteCharacter returns, each list that was
\* empty in the input (vulnerabilities, desires, fears, trust triggers,
\* identity anchors) holds the three traits of highest posterior of its
\* category, in descending order, each with its posterior as its number, and
\* each scalar field that was unset (introversion/extroversion, attachment
\* style, trust level, social role, primary style, decision pacing) holds
\* the recommended trait of its category.
EmptyFieldsFilledFromInference ==
  ret.op = "autocompleteCharacter" =>
    LET given  == heap[ret.arg]
        result == heap[ret.value]
        inf    == performInference(extractEvidenceFromCharacter(given))
        pairs(list, number(_)) ==
          [i \in DOMAIN list |-> [type |-> list[i].type, value |-> number(list[i])]]
        probability(x) == x.probability
        strength(x) == x.strength
        effectiveness(x) == x.effectiveness
        centrality(x) == x.centrality
    IN  /\ given.psychologicalProfile.likelyVulnerabilities = << >> =>
             IsTopThree(pairs(result.psychologicalProfile.likelyVulnerabilities,
                              probability), "vulnerabilities", inf)
        /\ given.motivationsInsecurities.desires = << >> =>
             IsTopThree(pairs(result.motivationsInsecurities.desires, strength),
                        "desires", inf)
        /\ given.motivationsInsecurities.fears = << >> =>
             IsTopThree(pairs(result.motivationsInsecurities.fears, strength),
                        "fears", inf)
        /\ given.trustSignalsVulnerabilityMarkers.triggers = << >> =>
             IsTopThree(pairs(result.trustSignalsVulnerabilityMarkers.triggers,
                              effectiveness), "trustTriggers", inf)
        /\ given.identityAnchors.coreAnchors = << >> =>
             IsTopThree(pairs(result.identityAnchors.coreAnchors, centrality),
                        "identityAnchors", inf)
        /\ given.psychologicalProfile.introversionExtroversion = "" =>
             IsRecommended(result.psychologicalProfile.introversionExtroversion,
                           "introversionExtroversion", inf)
        /\ given.psychologicalProfile.attachmentStyle = "" =>
             IsRecommended(result.psychologicalProfile.attachmentStyle,
                           "attachmentStyle", inf)
        /\ given.psychologicalProfile.trustLevel = "" =>
             IsRecommended(result.psychologicalProfile.trustLevel, "trustLevel", inf)
        /\ given.socialHierarchyPosition.role = "" =>
             IsRecommended(result.socialHierarchyPosition.role, "socialRole", inf)
        /\ given.communication.primaryStyle = "" =>
             IsRecommended(result.communication.primaryStyle, "communicationStyle", inf)
        /\ given.decisionMaking.pacing = "" =>
             IsRecommended(result.decisionMaking.pacing, "decisionPacing", inf)

\* C19 happens: autocompleteCharacter was given a profile with its five
\* lists empty and its six scalar fields unset.
AllFieldsFilledSeen ==
  /\ ret.op = "autocompleteCharacter"
  /\ ret.arg = 1
  /\ heap[1].psychologicalProfile.likelyVulnerabilities = << >>
  /\ heap[1].motivationsInsecurities.desires = << >>
  /\ heap[1].motivationsInsecurities.fears = << >>
  /\ heap[1].trustSignalsVulnerabilityMarkers.triggers = << >>
  /\ heap[1].identityAnchors.coreAnchors = << >>
  /\ heap[1].psychologicalProfile.introversionExtroversion = ""
  /\ heap[1].psychologicalProfile.attachmentStyle = ""
  /\ heap[1].psychologicalProfile.trustLevel = ""
  /\ heap[1].socialHierarchyPosition.role = ""
  /\ heap[1].communication.primaryStyle = ""
  /\ heap[1].decisionMaking.pacing = ""
  /\ Len(heap[ret.value].identityAnchors.coreAnchors) = 3
  /\ heap[ret.value].decisionMaking.pacing # ""

\* The five buckets of the emotionVsLogic category and the numbers they
\* stand for.
BucketValues ==
  [b \in {"Highly logical", "Moderately logical", "Balanced",
          "Moderately emotional", "Highly emotional"} |->
     CASE b = "Highly logical"       -> Rat(1, 10)
       [] b = "Moderately logical"   -> Rat(3, 10)
       [] b = "Balanced"             -> Rat(5, 10)
       [] b = "Moderately emotional" -> Rat(7, 10)
       [] b = "Highly emotional"     -> Rat(9, 10)]

\* C20: when autocompleteCharacter fills emotion-vs-logic, it writes 0.1,
\* 0.3, 0.5, 0.7 or 0.9 as the recommended bucket is Highly logical,
\* Moderately logical, Balanced, Moderately emotional or Highly emotional,
\* and 0.5 when the recommended trait is none of the five; so the number
\* written is always one of 0.1, 0.3, 0.5, 0.7, 0.9.
EmotionVsLogicFromBucket ==
  (ret.op = "autocompleteCharacter"
     /\ FalsyNumber(heap[ret.arg].decisionMaking.emotionVsLogic)) =>
    LET inf == performInference(extractEvidenceFromCharacter(heap[ret.arg]))
        recommended == getInferenceResult(inf, "emotionVsLogic").recommendedTrait
        written == heap[ret.value].decisionMaking.emotionVsLogic
    IN  /\ recommended \in DOMAIN BucketValues => written = BucketValues[recommended]
        /\ recommended \notin DOMAIN BucketValues => written = Rat(5, 10)
        /\ written \in {BucketValues[b] : b \in DOMAIN BucketValues}

\* C20 happens: the evidence of an Avoidant, Analytical profile has made
\* Moderately logical the recommended bucket, and 0.3 was written.
EmotionVsLogicFilledSeen ==
  /\ ret.op = "autocompleteCharacter"
  /\ heap[ret.arg].decisionMaking.emotionVsLogic = Rat(0, 10)
  /\ heap[ret.arg].psychologicalProfile.attachmentStyle = "Avoidant"
  /\ heap[ret.arg].communication.primaryStyle = "Analytical"
  /\ heap[ret.value].decisionMaking.emotionVsLogic = Rat(3, 10)

(***************************************************************************)
(* The strings generateRapportStrategy can push, by the block that pushes  *)
(* them.                                                                   *)
(***************************************************************************)
StringsOf(seq) == {seq[i] : i \in DOMAIN seq}

BlockStrings ==
  <<UNION {StringsOf(IntroversionStrategies(v)) : v \in {"Introverted", "Extroverted"}},
    UNION {StringsOf(AttachmentStrategies(v)) : v \in {"Anxious", "Avoidant", "Fearful-Avoidant"}},
    UNION {StringsOf(StyleStrategies(v)) : v \in {"Direct", "Indirect", "Analytical", "Emotional"}},
    UNION {StringsOf(TriggerStrategies(<<[type |-> v]>>)) :
             v \in {"Shared interests", "Vulnerability disclosure", "Consistent behavior",
                    "Shared values", "Shared emotional language"}},
    UNION {StringsOf(DesireStrategies(<<[type |-> v]>>)) :
             v \in {"Belonging", "Recognition", "Being understood", "Achievement"}}>>

\* The block a string belongs to (0 when it belongs to none or to several).
BlockOf(s) ==
  LET blocks == {b \in DOMAIN BlockStrings : s \in BlockStrings[b]}
  IN  IF Cardinality(blocks) = 1 THEN CHOOSE b \in blocks : TRUE ELSE 0

\* The strings of block b in a list of strategies, in the list's order.
BlockIn(strategies, b) ==
  LET inBlock(s) == BlockOf(s) = b
  IN  SelectSeq(strategies, inBlock)

\* C22: the strings generateRapportStrategy returns stand in the order of the
\* five blocks (introversion, attachment style, communication style, trust
\* trigger, desire); the first three blocks hold the strings of the field's
\* value, none when the value has no rule; the last two hold at most one
\* string, that of an entry with the highest effectiveness or strength, none
\* when the list is empty or that entry's type has no rule.
RapportStrategiesInBlockOrder ==
  ret.op = "generateRapportStrategy" =>
    LET character == heap[ret.arg]
        out       == ret.value
        triggers  == character.trustSignalsVulnerabilityMarkers.triggers
        desires   == character.motivationsInsecurities.desires
    IN  /\ \A i \in DOMAIN out : BlockOf(out[i]) \in 1..5
        /\ \A i, j \in DOMAIN out : i < j => BlockOf(out[i]) <= BlockOf(out[j])
        /\ BlockIn(out, 1) =
             IntroversionStrategies(character.psychologicalProfile.introversionExtroversion)
        /\ BlockIn(out, 2) =
             AttachmentStrategies(character.psychologicalProfile.attachmentStyle)
        /\ BlockIn(out, 3) = StyleStrategies(character.communication.primaryStyle)
        /\ character.psychologicalProfile.introversionExtroversion \in {"", "Ambivert"}
             => BlockIn(out, 1) = << >>
        /\ character.psychologicalProfile.attachmentStyle \in {"", "Secure"}
             => BlockIn(out, 2) = << >>
        /\ character.communication.primaryStyle \in {"", "Reserved"}
             => BlockIn(out, 3) = << >>
        /\ Len(BlockIn(out, 4)) <= 1
        /\ Len(BlockIn(out, 5)) <= 1
        /\ triggers = << >> => BlockIn(out, 4) = << >>
        /\ desires = << >> => BlockIn(out, 5) = << >>
        /\ triggers # << >> =>
             \E i \in DOMAIN triggers :
               /\ \A j \in DOMAIN triggers :
                    triggers[j].effectiveness.num <= triggers[i].effectiveness.num
               /\ BlockIn(out, 4) = TriggerStrategies(<<triggers[i]>>)
        /\ desires # << >> =>
             \E i \in DOMAIN desires :
               /\ \A j \in DOMAIN desires :
                    desires[j].strength.num <= desires[i].strength.num
               /\ BlockIn(out, 5) = DesireStrategies(<<desires[i]>>)

\* C22 happens: a call returned the strings of all five blocks, three for
\* each of the first three and one for each of the last two.
RapportAllBlocksSeen ==
  /\ ret.op = "generateRapportStrategy"
  /\ \A b \in 1..5 : BlockIn(ret.value, b) # << >>
  /\ Len(ret.value) = 11

\* C23: the prior lookup returns the probability of the first row of the
\* prior table matching (trait, category), and 0.01 when no row matches; the
\* likelihood lookup returns the multiplier of the first row of the
\* likelihood table matching (evidence, trait), and 1.0 when no row matches.
LookupsReturnFirstMatchOrFallback ==
  /\ ret.op = "getPrior" =>
       LET matches(i) == priors[i].trait = ret.trait /\ priors[i].category = ret.category
       IN  /\ \A i \in DOMAIN priors :
                (matches(i) /\ \A j \in 1..(i - 1) : ~matches(j))
                  => ret.value = priors[i].probability
           /\ (\A i \in DOMAIN priors : ~matches(i)) => ret.value = 1
  /\ ret.op = "getLikelihoodMultiplier" =>
       LET matches(i) == /\ likelihoods[i].evidence = ret.evidence
                         /\ likelihoods[i].trait = ret.trait
       IN  /\ \A i \in DOMAIN likelihoods :
                (matches(i) /\ \A j \in 1..(i - 1) : ~matches(j))
                  => ret.value = likelihoods[i].multiplier
           /\ (\A i \in DOMAIN likelihoods : ~matches(i)) => ret.value = 10

\* C23 happens: the prior lookup was called on a pair that two rows match
\* and returned the first row's probability, not the second's.
LookupOfDuplicateSeen ==
  /\ ret.op = "getPrior"
  /\ \E i, j \in DOMAIN priors :
       /\ i < j
       /\ priors[i].trait = ret.trait /\ priors[i].category = ret.category
       /\ priors[j].trait = ret.trait /\ priors[j].category = ret.category
       /\ priors[i].probability # priors[j].probability
       /\ ret.value = priors[i].probability

\* C24: a reload restores the character list and the relationship list that
\* were in memory before it, whatever adds, updates and deletes came before,
\* the deletion of the last remaining character included.  The lists are
\* compared in their JSON form, in which a Date is the string of its ISO
\* form.
ReloadRestoresLists ==
  [][ret'.op = "reload" =>
       /\ state'.characters = StringifyCharacters(state.characters)
       /\ state'.relationships = StringifyRelationships(state.relationships)
    ]_vars

\* now holds exactly the entries of before at the positions kept, each
\* unchanged and in the order they had: some strictly increasing map of
\* positions takes now onto those entries.
KeptInOrder(now, before, kept) ==
  /\ Len(now) = Cardinality(kept)
  /\ \E f \in [DOMAIN now -> kept] :
       /\ \A i, j \in DOMAIN now : i < j => f[i] < f[j]
       /\ \A i \in DOMAIN now : now[i] = before[f[i]]

CommunicationFactor ==
  LET p == heap[ret.arg]
      q == heap[ret.other]
  IN  ret.value.num
        - AttachmentCompat(p.psychologicalProfile.attachmentStyle,
                           q.psychologicalProfile.attachmentStyle)
        - IntroExtroCompat(p.psychologicalProfile.introversionExtroversion,
                           q.psychologicalProfile.introversionExtroversion)
        - DecisionMakingCompat(p.decisionMaking.emotionVsLogic,
                               q.decisionMaking.emotionVsLogic)

\* C25: the communication factor of calculateCompatibility is 1.0 when the
\* two primary styles are equal, 0.4 for Direct with Indirect in either
\* order and 0.6 for every other pair; it is 0.9 for no pair, Direct with
\* Direct and Analytical with Analytical included.
CommunicationFactorIsNeverNineTenths ==
  ret.op = "calculateCompatibility" =>
    LET style1 == heap[ret.arg].communication.primaryStyle
        style2 == heap[ret.other].communication.primaryStyle
    IN  /\ ret.value.den = 400
        /\ CommunicationFactor # 90
        /\ style1 = style2 => CommunicationFactor = 100
        /\ (style1 # style2 /\ {style1, style2} = {"Direct", "Indirect"})
             => CommunicationFactor = 40
        /\ (style1 # style2 /\ {style1, style2} # {"Direct", "Indirect"})
             => CommunicationFactor = 60

\* C25 happens: two profiles whose primary style is Analytical were compared
\* and the styles added 1.0.
AnalyticalPairSeen ==
  /\ ret.op = "calculateCompatibility"
  /\ heap[ret.arg].communication.primaryStyle = "Analytical"
  /\ heap[ret.other].communication.primaryStyle = "Analytical"
  /\ ret.arg # ret.other
  /\ CommunicationFactor = 100

\* The categories in which a trait has a prior row.
CategoriesWithPrior(trait) ==
  {priors[p].category : p \in {q \in DOMAIN priors : priors[q].trait = trait}}

\* C26: the affected trait of every row of the likelihood table has a prior
\* row in exactly one category.
LikelihoodTraitsHaveOnePriorCategory ==
  \A i \in DOMAIN likelihoods :
    Cardinality(CategoriesWithPrior(likelihoods[i].trait)) = 1

\* The evidence of a profile, written out field by field: an item of weight
\* 1 for each of the five evidence fields that is set.
PopulatedEvidence(character) ==
  LET item(value) == IF value = "" THEN << >>
                     ELSE <<[trait |-> value, probability |-> 2]>>
  IN  item(character.psychologicalProfile.introversionExtroversion)
        \o item(character.psychologicalProfile.attachmentStyle)
        \o item(character.psychologicalProfile.trustLevel)
        \o item(character.socialHierarchyPosition.role)
        \o item(character.communication.primaryStyle)

\* The types of a list of entries, in order.
TypesOf(list) == [i \in DOMAIN list |-> list[i].type]

\* The three traits of a category that autocompleteCharacter lists.
TopThreeTypes(inf, category) ==
  [i \in 1..3 |-> TopEntries(getInferenceResult(inf, category).traits, 3)[i].trait]

\* C27: every value autocompleteCharacter fills in comes from one inference,
\* made on the evidence fields that are populated in the input: a value the
\* call writes into one unset field is no evidence for another field it fills.
FilledFromInputEvidenceOnly ==
  ret.op = "autocompleteCharacter" =>
    LET given  == heap[ret.arg]
        result == heap[ret.value]
        inf    == performInference(PopulatedEvidence(given))
        recommended(category) == getInferenceResult(inf, category).recommendedTrait
    IN  /\ given.psychologicalProfile.introversionExtroversion = "" =>
             result.psychologicalProfile.introversionExtroversion
               = recommended("introversionExtroversion")
        /\ given.psychologicalProfile.attachmentStyle = "" =>
             result.psychologicalProfile.attachmentStyle = recommended("attachmentStyle")
        /\ given.psychologicalProfile.trustLevel = "" =>
             result.psychologicalProfile.trustLevel = recommended("trustLevel")
        /\ given.socialHierarchyPosition.role = "" =>
             result.socialHierarchyPosition.role = recommended("socialRole")
        /\ given.communication.primaryStyle = "" =>
             result.communication.primaryStyle = recommended("communicationStyle")
        /\ given.decisionMaking.pacing = "" =>
             result.decisionMaking.pacing = recommended("decisionPacing")
        /\ given.psychologicalProfile.likelyVulnerabilities = << >> =>
             TypesOf(result.psychologicalProfile.likelyVulnerabilities)
               = TopThreeTypes(inf, "vulnerabilities")
        /\ given.motivationsInsecurities.desires = << >> =>
             TypesOf(result.motivationsInsecurities.desires) = TopThreeTypes(inf, "desires")
        /\ given.motivationsInsecurities.fears = << >> =>
             TypesOf(result.motivationsInsecurities.fears) = TopThreeTypes(inf, "fears")
        /\ given.trustSignalsVulnerabilityMarkers.triggers = << >> =>
             TypesOf(result.trustSignalsVulnerabilityMarkers.triggers)
               = TopThreeTypes(inf, "trustTriggers")
        /\ given.identityAnchors.coreAnchors = << >> =>
             TypesOf(result.identityAnchors.coreAnchors)
               = TopThreeTypes(inf, "identityAnchors")

\* C27 happens: a call filled the attachment style and the trust level of a
\* profile in which both were unset, and the trust level it wrote is not the
\* one recommended once the values the call wrote count as evidence.
FilledValueNotEvidenceSeen ==
  /\ ret.op = "autocompleteCharacter"
  /\ heap[ret.arg].psychologicalProfile.attachmentStyle = ""
  /\ heap[ret.arg].psychologicalProfile.trustLevel = ""
  /\ heap[ret.value].psychologicalProfile.attachmentStyle # ""
  /\ heap[ret.value].psychologicalProfile.trustLevel
       # getInferenceResult(performInference(PopulatedEvidence(heap[ret.value])),
                            "trustLevel").recommendedTrait

\* C28: calculateCompatibility(a, b) equals calculateCompatibility(b, a) for
\* every pair of profiles a and b.
CompatibilityIsSymmetric ==
  ret.op = "calculateCompatibility" =>
    ret.value = calculateCompatibility(heap[ret.other], heap[ret.arg])

\* C28 happens: a Direct, Anxious, introverted profile was compared with an
\* Indirect, Avoidant, extroverted one of another emotion-vs-logic value.
CompatibilityOfUnlikePairSeen ==
  /\ ret.op = "calculateCompatibility"
  /\ heap[ret.arg].communication.primaryStyle = "Direct"
  /\ heap[ret.other].communication.primaryStyle = "Indirect"
  /\ heap[ret.arg].psychologicalProfile.attachmentStyle = "Anxious"
  /\ heap[ret.other].psychologicalProfile.attachmentStyle = "Avoidant"
  /\ heap[ret.arg].psychologicalProfile.introversionExtroversion = "Introverted"
  /\ heap[ret.other].psychologicalProfile.introversionExtroversion = "Highly Extroverted"
  /\ heap[ret.arg].decisionMaking.emotionVsLogic
       # heap[ret.other].decisionMaking.emotionVsLogic
  /\ ret.value = calculateCompatibility(heap[ret.other], heap[ret.arg])

\* The profile differs from the given one in the five lists at most.
SameButLists(result, given) ==
  result = [given EXCEPT
              !.psychologicalProfile.likelyVulnerabilities =
                 result.psychologicalProfile.likelyVulnerabilities,
              !.motivationsInsecurities.desires = result.motivationsInsecurities.desires,
              !.motivationsInsecurities.fears = result.motivationsInsecurities.fears,
              !.trustSignalsVulnerabilityMarkers.triggers =
                 result.trustSignalsVulnerabilityMarkers.triggers,
              !.identityAnchors.coreAnchors = result.identityAnchors.coreAnchors]

\* C30: autocompleteCharacter applied to a profile made by createNewCharacter
\* returns a profile that differs from it in the five list fields
\* (vulnerabilities, desires, fears, trust triggers, identity anchors) and in
\* nothing else.
NewCharacterOnlyListsFilled ==
  (/\ ret.op = "autocompleteCharacter"
   /\ \E id \in CharacterIds : heap[ret.arg] = createNewCharacter(id))
    => SameButLists(heap[ret.value], heap[ret.arg])

============================================================================
